---- MODULE Spec2Model ----
(***************************************************************************)
(* DreamScribeAI: the in-memory store (server/storage.ts, MemStorage) and  *)
(* the REST router in front of it (server/routes.ts).                      *)
(*                                                                         *)
(* JavaScript objects are functions from field names to values; the object *)
(* spread {...a, ...b} is Spread(a, b).  A Map<number, T> is a function    *)
(* whose domain is the set of its keys.  Every key is inserted when its id *)
(* is taken from the counter and Map.set on a present key keeps its place, *)
(* so the Map's iteration order is ascending key order.                    *)
(* "T | undefined" is a sequence of length 0 or 1.                         *)
(* Dates are integers (minutes); new Date() reads the clock `now`.         *)
(***************************************************************************)
EXTENDS Integers, Sequences, FiniteSets, TLC

VARIABLES
    storage,   \* the singleton MemStorage: its six maps and six counters
    now,       \* the wall clock read by new Date() / Date.now()
    resp,      \* the last request served and the response it was given
    pending,   \* POST /generate-character-response requests awaiting an external call
    nreq,      \* number of responses sent so far
    apiKey,    \* whether process.env.GEMINI_API_KEY is set
    appendFails, \* whether the promise of storage.createActivityLog rejects
    budget,    \* number of requests the run takes
    page       \* the chat page of the client: its place and its requests in flight

vars == <<storage, now, resp, pending, nreq, apiKey, appendFails, budget, page>>

\* no chat page is open
NoPage == [pc |-> "closed", characterId |-> 0, chat |-> {}, seen |-> 0]

\* ---------------------------------------------------------------- bounds
MaxReq == 2
MaxTicks == 1
MaxPending == 2
MaxHistory == 12

\* ------------------------------------------------------- JavaScript values
Undefined == << >>
Some(x) == <<x>>

Spread(a, b) ==
    [k \in DOMAIN a \cup DOMAIN b |-> IF k \in DOMAIN b THEN b[k] ELSE a[k]]

Put(m, k, v) ==
    [x \in DOMAIN m \cup {k} |-> IF x = k THEN v ELSE m[x]]

Remove(m, k) ==
    [x \in DOMAIN m \ {k} |-> m[x]]

Has(m, k) == k \in DOMAIN m

Get(m, k) == IF k \in DOMAIN m THEN Some(m[k]) ELSE Undefined

RECURSIVE KeysAsc(_)
KeysAsc(S) ==
    IF S = {} THEN << >>
    ELSE LET k == CHOOSE x \in S : \A y \in S : x <= y
         IN <<k>> \o KeysAsc(S \ {k})

\* Array.from(map.values())
Values(m) ==
    LET ks == KeysAsc(DOMAIN m)
    IN [i \in 1..Len(ks) |-> m[ks[i]]]

\* Array.prototype.filter on a field
RECURSIVE FilterBy(_, _, _)
FilterBy(xs, field, v) ==
    IF xs = << >> THEN << >>
    ELSE IF Head(xs)[field] = v
         THEN <<Head(xs)>> \o FilterBy(Tail(xs), field, v)
         ELSE FilterBy(Tail(xs), field, v)

\* Array.prototype.sort is stable: x goes after every element that does not
\* compare greater than it.  desc: (a, b) => b.createdAt - a.createdAt,
\* otherwise (a, b) => a.createdAt - b.createdAt.
RECURSIVE InsertSorted(_, _, _)
InsertSorted(xs, x, desc) ==
    IF xs = << >> THEN <<x>>
    ELSE LET h == Head(xs)
             cmp == IF desc THEN x.createdAt - h.createdAt
                    ELSE h.createdAt - x.createdAt
         IN IF cmp > 0 THEN <<x>> \o xs
            ELSE <<h>> \o InsertSorted(Tail(xs), x, desc)

RECURSIVE SortFrom(_, _, _)
SortFrom(acc, xs, desc) ==
    IF xs = << >> THEN acc
    ELSE SortFrom(InsertSorted(acc, Head(xs), desc), Tail(xs), desc)

SortByCreatedAt(xs, desc) == SortFrom(<< >>, xs, desc)

\* Array.prototype.slice(0, n) for any integer n
Slice0(xs, n) ==
    LET len == Len(xs)
        hi == IF n < 0 THEN (IF len + n < 0 THEN 0 ELSE len + n)
              ELSE (IF n > len THEN len ELSE n)
    IN SubSeq(xs, 1, hi)

\* ------------------------------------------------------------ the store
\* Each mutating operation yields the new store (s) and its return value (r).
\* s.issued is a history of the ids the create operations returned.

createUser(s, insertUser) ==
    LET id == s.userIdCounter
        user == Spread(insertUser, [id |-> id])
    IN [s |-> [s EXCEPT !.userIdCounter = id + 1, !.users = Put(@, id, user),
                        !.issued.users = Append(@, user.id)],
        r |-> user]

getWorld(s, id) == Get(s.worlds, id)

getWorldsByUser(s, userId) == FilterBy(Values(s.worlds), "userId", userId)

\* mutant: `this.worldIdCounter` read without the ++
createWorld_NoIncrement(s, insertWorld, t) ==
    LET id == s.worldIdCounter
        world == Spread(insertWorld, [id |-> id, createdAt |-> t])
    IN [s |-> [s EXCEPT !.worlds = Put(@, id, world),
                        !.issued.worlds = Append(@, world.id)],
        r |-> world]

createWorld(s, insertWorld, t) ==
    LET id == s.worldIdCounter
        world == Spread(insertWorld, [id |-> id, createdAt |-> t])
    IN [s |-> [s EXCEPT !.worldIdCounter = id + 1, !.worlds = Put(@, id, world),
                        !.issued.worlds = Append(@, world.id)],
        r |-> world]

updateWorld(s, id, data) ==
    IF ~Has(s.worlds, id) THEN [s |-> s, r |-> Undefined]
    ELSE LET updatedWorld == Spread(s.worlds[id], data)
         IN [s |-> [s EXCEPT !.worlds = Put(@, id, updatedWorld)],
             r |-> Some(updatedWorld)]

\* mutant: deleting a world also deletes its activity entries
deleteWorld_Cascade(s, id) ==
    [s |-> [s EXCEPT !.worlds = Remove(@, id),
                     !.activityLogs = [k \in { x \in DOMAIN @ : @[x].worldId # id } |-> @[k]]],
     r |-> Has(s.worlds, id)]

deleteWorld(s, id) ==
    [s |-> [s EXCEPT !.worlds = Remove(@, id)], r |-> Has(s.worlds, id)]

getCharacter(s, id) == Get(s.characters, id)

getCharactersByWorld(s, worldId) == FilterBy(Values(s.characters), "worldId", worldId)

\* mutant: the spread comes last, { id, createdAt: new Date(), ...insertCharacter }
createCharacter_TrustsPayload(s, insertCharacter, t) ==
    LET id == s.characterIdCounter
        character == Spread([id |-> id, createdAt |-> t], insertCharacter)
    IN [s |-> [s EXCEPT !.characterIdCounter = id + 1,
                        !.characters = Put(@, id, character),
                        !.issued.characters = Append(@, character.id)],
        r |-> character]

createCharacter(s, insertCharacter, t) ==
    LET id == s.characterIdCounter
        character == Spread(insertCharacter, [id |-> id, createdAt |-> t])
    IN [s |-> [s EXCEPT !.characterIdCounter = id + 1,
                        !.characters = Put(@, id, character),
                        !.issued.characters = Append(@, character.id)],
        r |-> character]

\* mutant: an update of an id that is not stored stores the patch under it
updateCharacter_Upserts(s, id, data) ==
    LET updatedCharacter ==
            IF Has(s.characters, id) THEN Spread(s.characters[id], data) ELSE data
    IN [s |-> [s EXCEPT !.characters = Put(@, id, updatedCharacter)],
        r |-> Some(updatedCharacter)]

updateCharacter(s, id, data) ==
    IF ~Has(s.characters, id) THEN [s |-> s, r |-> Undefined]
    ELSE LET updatedCharacter == Spread(s.characters[id], data)
         IN [s |-> [s EXCEPT !.characters = Put(@, id, updatedCharacter)],
             r |-> Some(updatedCharacter)]

\* mutant: the store merges, { ...character, memory: { ...character.memory, ...memory } }
updateCharacterMemory_Merges(s, id, memory) ==
    IF ~Has(s.characters, id) THEN [s |-> s, r |-> Undefined]
    ELSE LET character == s.characters[id]
             merged == Spread(IF "memory" \in DOMAIN character THEN character.memory
                              ELSE << >>, memory)
             updatedCharacter == Spread(character, [memory |-> merged])
         IN [s |-> [s EXCEPT !.characters = Put(@, id, updatedCharacter)],
             r |-> Some(updatedCharacter)]

updateCharacterMemory(s, id, memory) ==
    IF ~Has(s.characters, id) THEN [s |-> s, r |-> Undefined]
    ELSE LET updatedCharacter == Spread(s.characters[id], [memory |-> memory])
         IN [s |-> [s EXCEPT !.characters = Put(@, id, updatedCharacter)],
             r |-> Some(updatedCharacter)]

deleteCharacter(s, id) ==
    [s |-> [s EXCEPT !.characters = Remove(@, id)], r |-> Has(s.characters, id)]

getScene(s, id) == Get(s.scenes, id)

getScenesByWorld(s, worldId) ==
    SortByCreatedAt(FilterBy(Values(s.scenes), "worldId", worldId), TRUE)

createScene(s, insertScene, t) ==
    LET id == s.sceneIdCounter
        scene == Spread(insertScene, [id |-> id, createdAt |-> t])
    IN [s |-> [s EXCEPT !.sceneIdCounter = id + 1, !.scenes = Put(@, id, scene),
                        !.issued.scenes = Append(@, scene.id)],
        r |-> scene]

\* mutant: the patch replaces the stored scene, this.scenes.set(id, data)
updateScene_Replaces(s, id, data) ==
    IF ~Has(s.scenes, id) THEN [s |-> s, r |-> Undefined]
    ELSE [s |-> [s EXCEPT !.scenes = Put(@, id, data)], r |-> Some(data)]

updateScene(s, id, data) ==
    IF ~Has(s.scenes, id) THEN [s |-> s, r |-> Undefined]
    ELSE LET updatedScene == Spread(s.scenes[id], data)
         IN [s |-> [s EXCEPT !.scenes = Put(@, id, updatedScene)],
             r |-> Some(updatedScene)]

\* mutant: deletes from the wrong map
deleteScene_WrongMap(s, id) ==
    [s |-> [s EXCEPT !.characters = Remove(@, id)], r |-> Has(s.scenes, id)]

deleteScene(s, id) ==
    [s |-> [s EXCEPT !.scenes = Remove(@, id)], r |-> Has(s.scenes, id)]

\* mutant: the comparator of getScenesByWorld, newest first
getChatMessagesByCharacter_Desc(s, characterId) ==
    SortByCreatedAt(FilterBy(Values(s.chatMessages), "characterId", characterId), TRUE)

getChatMessagesByCharacter(s, characterId) ==
    SortByCreatedAt(FilterBy(Values(s.chatMessages), "characterId", characterId), FALSE)

createChatMessage(s, insertMessage, t) ==
    LET id == s.chatMessageIdCounter
        message == Spread(insertMessage, [id |-> id, createdAt |-> t])
    IN [s |-> [s EXCEPT !.chatMessageIdCounter = id + 1,
                        !.chatMessages = Put(@, id, message),
                        !.issued.chatMessages = Append(@, message.id)],
        r |-> message]

\* limit is Undefined or Some(n); `if (limit)` is false for undefined, 0 and NaN
getActivityLogsByWorld(s, worldId, limit) ==
    LET logs == SortByCreatedAt(FilterBy(Values(s.activityLogs), "worldId", worldId), TRUE)
    IN IF limit # Undefined /\ limit[1] # 0 THEN Slice0(logs, limit[1]) ELSE logs

createActivityLog(s, insertLog, t) ==
    LET id == s.activityLogIdCounter
        log == Spread(insertLog, [id |-> id, createdAt |-> t])
    IN [s |-> [s EXCEPT !.activityLogIdCounter = id + 1,
                        !.activityLogs = Put(@, id, log),
                        !.issued.activityLogs = Append(@, log.id)],
        r |-> log]

\* ------------------------------------------------------------- demo data
\* Time unit: one minute.  24 * 60 * 60 * 1000 ms is Day; the chat seeds are
\* 600000 .. 360000 ms (10 .. 6 minutes) before "2 days ago".
Day == 1440

\* Date.now() at construction
T0 == 15 * Day

\* constructor: empty maps, counters at 1
EmptyStorage ==
    [users |-> << >>, worlds |-> << >>, characters |-> << >>, scenes |-> << >>,
     chatMessages |-> << >>, activityLogs |-> << >>,
     userIdCounter |-> 1, worldIdCounter |-> 1, characterIdCounter |-> 1,
     sceneIdCounter |-> 1, chatMessageIdCounter |-> 1, activityLogIdCounter |-> 1,
     \* history: per map, the ids handed out so far, in the order they were
     issued |-> [users |-> << >>, worlds |-> << >>, characters |-> << >>,
                 scenes |-> << >>, chatMessages |-> << >>, activityLogs |-> << >>]]

\* `id: this.xIdCounter++` followed by `this.xs.set(id, entity)`
SeedInsert(s, map, counter, entity) ==
    LET id == s[counter]
    IN [s EXCEPT ![counter] = id + 1, ![map] = Put(@, id, Spread(entity, [id |-> id])),
                 !.issued[map] = Append(@, id)]

\* A description is a template string: its fixed text and the interpolated name.
Desc(text, name) == [text |-> text, name |-> name]

SeedCharacter(worldId, name, role, interactions, daysAgo, t) ==
    [worldId |-> worldId, name |-> name, role |-> role, appearance |-> "appearance",
     personality |-> "personality", backstory |-> "backstory",
     \* the three seeded events are kept as their count
     memory |-> [interactions |-> interactions, events |-> 3],
     createdAt |-> t - daysAgo * Day]

SeedMessage(characterId, userId, isUserMessage, minutes, t) ==
    [characterId |-> characterId, userId |-> userId, isUserMessage |-> isUserMessage,
     content |-> "seeded", createdAt |-> t - 2 * Day - minutes]

SeedLog(worldId, activityType, entityId, description, daysAgo, t) ==
    [worldId |-> worldId, activityType |-> activityType, entityId |-> entityId,
     description |-> description, createdAt |-> t - daysAgo * Day]

initDemoData(s0, t) ==
    LET demoUser == s0.userIdCounter
        s1 == SeedInsert(s0, "users", "userIdCounter",
                  [username |-> "demouser", password |-> "password"])
        etherealIsles == s1.worldIdCounter
        s2 == SeedInsert(s1, "worlds", "worldIdCounter",
                  [userId |-> demoUser, name |-> "Ethereal Isles",
                   description |-> "description", createdAt |-> t - 15 * Day])
        neonDistrict == s2.worldIdCounter
        s3 == SeedInsert(s2, "worlds", "worldIdCounter",
                  [userId |-> demoUser, name |-> "Neon District",
                   description |-> "description", createdAt |-> t - 10 * Day])
        corsairsRealm == s3.worldIdCounter
        s4 == SeedInsert(s3, "worlds", "worldIdCounter",
                  [userId |-> demoUser, name |-> "Corsair's Realm",
                   description |-> "description", createdAt |-> t - 5 * Day])
        lyra == s4.characterIdCounter
        s5 == SeedInsert(s4, "characters", "characterIdCounter",
                  SeedCharacter(etherealIsles, "Lyra Nightshade", "Rogue Elf", 24, 14, t))
        cipher == s5.characterIdCounter
        s6 == SeedInsert(s5, "characters", "characterIdCounter",
                  SeedCharacter(neonDistrict, "Cipher_9", "Netrunner", 15, 9, t))
        blackthorne == s6.characterIdCounter
        s7 == SeedInsert(s6, "characters", "characterIdCounter",
                  SeedCharacter(corsairsRealm, "Capt. Blackthorne", "Pirate Captain", 31, 4, t))
        krakenScene == s7.sceneIdCounter
        s8 == SeedInsert(s7, "scenes", "sceneIdCounter",
                  [worldId |-> corsairsRealm, title |-> "The Kraken's Call",
                   content |-> "content", styleType |-> "Novel - Descriptive",
                   tone |-> "Dramatic", includedCharacters |-> <<blackthorne>>,
                   createdAt |-> t - 3 * Day])
        a1 == SeedInsert(s8, "activityLogs", "activityLogIdCounter",
                  SeedLog(etherealIsles, "CHARACTER_CREATED", lyra,
                          Desc("Created character", "Lyra Nightshade"), 14, t))
        a2 == SeedInsert(a1, "activityLogs", "activityLogIdCounter",
                  SeedLog(neonDistrict, "CHARACTER_CREATED", cipher,
                          Desc("Created character", "Cipher_9"), 9, t))
        a3 == SeedInsert(a2, "activityLogs", "activityLogIdCounter",
                  SeedLog(corsairsRealm, "CHARACTER_CREATED", blackthorne,
                          Desc("Created character", "Capt. Blackthorne"), 4, t))
        a4 == SeedInsert(a3, "activityLogs", "activityLogIdCounter",
                  SeedLog(corsairsRealm, "SCENE_CREATED", krakenScene,
                          Desc("Created scene", "The Kraken's Call"), 3, t))
        a5 == SeedInsert(a4, "activityLogs", "activityLogIdCounter",
                  SeedLog(etherealIsles, "CHARACTER_CHAT", lyra,
                          Desc("Conversation with", "Lyra"), 2, t))
        a6 == SeedInsert(a5, "activityLogs", "activityLogIdCounter",
                  SeedLog(etherealIsles, "WORLD_UPDATED", etherealIsles,
                          Desc("Added Floating Bazaar location", ""), 1, t))
        m1 == SeedInsert(a6, "chatMessages", "chatMessageIdCounter",
                  SeedMessage(lyra, demoUser, FALSE, 10, t))
        m2 == SeedInsert(m1, "chatMessages", "chatMessageIdCounter",
                  SeedMessage(lyra, demoUser, TRUE, 9, t))
        m3 == SeedInsert(m2, "chatMessages", "chatMessageIdCounter",
                  SeedMessage(lyra, demoUser, FALSE, 8, t))
        m4 == SeedInsert(m3, "chatMessages", "chatMessageIdCounter",
                  SeedMessage(lyra, demoUser, TRUE, 7, t))
        m5 == SeedInsert(m4, "chatMessages", "chatMessageIdCounter",
                  SeedMessage(lyra, demoUser, FALSE, 6, t))
    IN m5

\* export const storage = new MemStorage()
NewMemStorage(t) == initDemoData(EmptyStorage, t)

\* the store as the module exports it: the counters stand after the demo data
SeededStorage == NewMemStorage(T0)

\* ------------------------------------------------------------- schemas
\* drizzle-zod insert schemas: a notNull column without default is required,
\* the others are optional; keys outside the picked columns are stripped.
insertWorldSchema ==
    [required |-> {"userId", "name", "description"}, optional |-> {}]

insertCharacterSchema ==
    [required |-> {"worldId", "name", "role", "personality"},
     optional |-> {"appearance", "backstory", "memory"}]

insertSceneSchema ==
    [required |-> {"worldId", "title", "content"},
     optional |-> {"styleType", "tone", "includedCharacters"}]

insertChatMessageSchema ==
    [required |-> {"characterId", "userId", "isUserMessage", "content"}, optional |-> {}]

\* The values of the model carry no JavaScript type.  A request body names,
\* under the key mistyped, those of its keys whose JSON value has another
\* type than the column's (a number where text is expected, a string where
\* an integer is).
Mistyped(obj) == IF "mistyped" \in DOMAIN obj THEN obj.mistyped ELSE {}

\* a value of the column's type for every required column
Defaults ==
    [userId |-> 1, worldId |-> 1, characterId |-> 1, isUserMessage |-> FALSE,
     name |-> "", description |-> "", role |-> "", personality |-> "",
     title |-> "", content |-> ""]

\* mutant: a missing or mistyped required key is filled in, nothing is thrown
parse_FillsDefaults(schema, obj) ==
    Some([k \in schema.required \cup (DOMAIN obj \cap schema.optional) |->
            IF k \in DOMAIN obj /\ k \notin Mistyped(obj) THEN obj[k] ELSE Defaults[k]])

\* schema.parse(obj): Undefined stands for the thrown ZodError
parse(schema, obj) ==
    IF /\ schema.required \subseteq DOMAIN obj
       /\ Mistyped(obj) \cap (schema.required \cup schema.optional) = {}
    THEN Some([k \in DOMAIN obj \cap (schema.required \cup schema.optional) |-> obj[k]])
    ELSE Undefined

\* ------------------------------------------------------------ the router
Response(op, id, reqBody, status, body) ==
    [op |-> op, id |-> id, reqBody |-> reqBody, status |-> status, body |-> body]

\* res.status(..).json(..): the handler ends
Send(r) ==
    /\ resp' = r
    /\ nreq' = nreq + 1

\* await storage.createActivityLog(..) inside a handler's try block: the
\* promise resolves with the entry appended, or rejects with nothing appended
AppendLog(s, insertLog, t) ==
    IF appendFails
    THEN [s |-> s, threw |-> TRUE]
    ELSE [s |-> createActivityLog(s, insertLog, t).s, threw |-> FALSE]

\* the handler's catch block: a rejected await ends the request with 500
\* in place of the response r the try block was about to send
Caught(a, r) ==
    IF a.threw THEN Response(r.op, r.id, r.reqBody, 500, << >>) ELSE r

RemoveAt(q, i) == SubSeq(q, 1, i - 1) \o SubSeq(q, i + 1, Len(q))

\* mutant: the event loop takes the next callback while a handler is still
\* going on after a settled promise
Idle_Always == TRUE

\* A handler that awaits the settled promise of a store operation goes on
\* in the same turn of the event loop: no other callback (a new request, the
\* answer to a fetch) is taken before it has run to its next fetch or to
\* its end.
Idle == \A i \in 1..Len(pending) : pending[i].pc # "update"

\* a new request is taken while the budget of requests lasts
Accept == Idle /\ nreq + Len(pending) < budget

\* ids a request may name: the first seeded one, every one issued since
\* construction, and one never issued
IdArgs(s, counter) ==
    {1} \cup (SeededStorage[counter] .. s[counter])

\* Request bodies.  A body may carry keys outside the schema (id, createdAt)
\* or lack a required key.
WorldBodies ==
    { [name |-> "Test", description |-> "description", id |-> 1, createdAt |-> 0],
      [name |-> "Test"],
      [name |-> "42", description |-> "description", mistyped |-> {"name"}] }

WorldPatches ==
    { [name |-> "Renamed"], [id |-> 2, createdAt |-> 0] }

MemoryDocs ==
    { [a |-> 1], [b |-> 2], [a |-> 2, b |-> 2] }

CharacterBodies(s) ==
    { [worldId |-> 1, name |-> "Hero", role |-> "Knight", personality |-> "Brave",
       memory |-> [a |-> 1], id |-> 1, createdAt |-> 0],
      [worldId |-> s.worldIdCounter, name |-> "Hero", role |-> "Knight",
       personality |-> "Brave"],
      [worldId |-> s.worldIdCounter - 1, name |-> "Hero", role |-> "Knight",
       personality |-> "Brave", memory |-> << >>],
      [worldId |-> 1, name |-> "Hero"],
      [worldId |-> 1, name |-> "Hero", role |-> "Knight", personality |-> "Brave",
       mistyped |-> {"worldId"}] }

CharacterPatches ==
    { [name |-> "Renamed", memory |-> [b |-> 2]],
      [id |-> 2, worldId |-> 2, createdAt |-> 0] }

SceneBodies(s) ==
    { [worldId |-> 3, title |-> "Scene", content |-> "content",
       includedCharacters |-> << >>, id |-> 1, createdAt |-> 0],
      [worldId |-> s.worldIdCounter, title |-> "Scene", content |-> "content"],
      [worldId |-> 3, title |-> "Scene"],
      [worldId |-> 3, title |-> "Scene", content |-> "7", mistyped |-> {"content"}] }

ScenePatches ==
    { [title |-> "Retitled", worldId |-> 1], [id |-> 2, createdAt |-> T0 + 1] }

\* lib/gemini.ts 123: what the client's generateCharacterResponse returns
\* when its request fails
ClientFallback ==
    "I seem to be having trouble finding the right words. Perhaps we can try again in a moment?"

\* characterId 2 is a seeded character nobody has talked to yet
ChatBodies(s) ==
    { [characterId |-> c, isUserMessage |-> u, content |-> "hello"] :
        c \in IdArgs(s, "characterIdCounter") \cup {2}, u \in BOOLEAN }
    \cup { [characterId |-> c, isUserMessage |-> FALSE] : c \in {1, 2} }
    \cup { [characterId |-> c, isUserMessage |-> FALSE, content |-> ClientFallback] :
             c \in {1, 2} }
    \cup { [characterId |-> 1, isUserMessage |-> TRUE],
            [characterId |-> 1, isUserMessage |-> TRUE, content |-> "hello",
             mistyped |-> {"characterId"}] }

\* ?limit=N: absent, or parseInt of the query string
Limits == { Undefined, Some(0), Some(2) }

\* app.post('/api/worlds')
POST_worlds ==
    /\ Accept
    /\ \E body \in WorldBodies :
        LET validatedData == parse(insertWorldSchema, Spread(body, [userId |-> 1]))
        IN IF validatedData = Undefined
           THEN /\ Send(Response("POST /api/worlds", 0, body, 400, << >>))
                /\ UNCHANGED storage
           ELSE LET c == createWorld(storage, validatedData[1], now)
                    newWorld == c.r
                    a == AppendLog(c.s,
                            [worldId |-> newWorld.id, activityType |-> "WORLD_CREATED",
                             entityId |-> newWorld.id,
                             description |-> Desc("Created world", newWorld.name)], now)
                IN /\ storage' = a.s
                   /\ Send(Caught(a, Response("POST /api/worlds", 0, body, 201, <<newWorld>>)))
    /\ UNCHANGED <<now, pending, apiKey, appendFails, budget, page>>

\* app.patch('/api/worlds/:id')
PATCH_worlds_id ==
    /\ Accept
    /\ \E worldId \in IdArgs(storage, "worldIdCounter"), body \in WorldPatches :
        LET world == getWorld(storage, worldId)
        IN IF world = Undefined
           THEN /\ Send(Response("PATCH /api/worlds/:id", worldId, << >>, 404, << >>))
                /\ UNCHANGED storage
           ELSE LET u == updateWorld(storage, worldId, body)
                    a == AppendLog(u.s,
                            [worldId |-> worldId, activityType |-> "WORLD_UPDATED",
                             entityId |-> worldId,
                             description |-> Desc("Updated world", world[1].name)], now)
                IN /\ storage' = a.s
                   /\ Send(Caught(a, Response("PATCH /api/worlds/:id", worldId, body, 200, u.r)))
    /\ UNCHANGED <<now, pending, apiKey, appendFails, budget, page>>

\* app.delete('/api/worlds/:id')
DELETE_worlds_id ==
    /\ Accept
    /\ \E worldId \in IdArgs(storage, "worldIdCounter") :
        LET world == getWorld(storage, worldId)
        IN IF world = Undefined
           THEN /\ Send(Response("DELETE /api/worlds/:id", worldId, << >>, 404, << >>))
                /\ UNCHANGED storage
           ELSE LET d == deleteWorld(storage, worldId)
                IN /\ storage' = d.s
                   /\ Send(Response("DELETE /api/worlds/:id", worldId, << >>,
                                    IF d.r THEN 204 ELSE 500, << >>))
    /\ UNCHANGED <<now, pending, apiKey, appendFails, budget, page>>

\* app.post('/api/characters')
POST_characters ==
    /\ Accept
    /\ \E body \in CharacterBodies(storage) :
        LET validatedData == parse(insertCharacterSchema, body)
        IN IF validatedData = Undefined
           THEN /\ Send(Response("POST /api/characters", 0, body, 400, << >>))
                /\ UNCHANGED storage
           ELSE LET c == createCharacter(storage, validatedData[1], now)
                    newCharacter == c.r
                    a == AppendLog(c.s,
                            [worldId |-> newCharacter.worldId,
                             activityType |-> "CHARACTER_CREATED",
                             entityId |-> newCharacter.id,
                             description |-> Desc("Created character", newCharacter.name)],
                            now)
                IN /\ storage' = a.s
                   /\ Send(Caught(a, Response("POST /api/characters", 0, body, 201, <<newCharacter>>)))
    /\ UNCHANGED <<now, pending, apiKey, appendFails, budget, page>>

\* app.patch('/api/characters/:id')
PATCH_characters_id ==
    /\ Accept
    /\ \E characterId \in IdArgs(storage, "characterIdCounter"), body \in CharacterPatches :
        LET character == getCharacter(storage, characterId)
        IN IF character = Undefined
           THEN /\ Send(Response("PATCH /api/characters/:id", characterId, << >>, 404, << >>))
                /\ UNCHANGED storage
           ELSE LET u == updateCharacter(storage, characterId, body)
                    a == AppendLog(u.s,
                            [worldId |-> character[1].worldId,
                             activityType |-> "CHARACTER_UPDATED",
                             entityId |-> characterId,
                             description |-> Desc("Updated character", character[1].name)],
                            now)
                IN /\ storage' = a.s
                   /\ Send(Caught(a, Response("PATCH /api/characters/:id", characterId, body, 200, u.r)))
    /\ UNCHANGED <<now, pending, apiKey, appendFails, budget, page>>

\* mutant: the current memory is not read, newMemory = { ...req.body }
MemoryOf_Empty(character) == << >>

\* character.memory || {}
MemoryOf(character) ==
    IF "memory" \in DOMAIN character THEN character.memory ELSE << >>

\* app.patch('/api/characters/:id/memory')
PATCH_characters_id_memory ==
    /\ Accept
    /\ \E characterId \in IdArgs(storage, "characterIdCounter"), body \in MemoryDocs :
        LET character == getCharacter(storage, characterId)
        IN IF character = Undefined
           THEN /\ Send(Response("PATCH /api/characters/:id/memory", characterId, << >>,
                                 404, << >>))
                /\ UNCHANGED storage
           ELSE LET currentMemory == MemoryOf(character[1])
                    newMemory == Spread(currentMemory, body)
                    u == updateCharacterMemory(storage, characterId, newMemory)
                IN /\ storage' = u.s
                   /\ Send(Response("PATCH /api/characters/:id/memory", characterId, body,
                                    200, u.r))
    /\ UNCHANGED <<now, pending, apiKey, appendFails, budget, page>>

\* app.delete('/api/characters/:id')
DELETE_characters_id ==
    /\ Accept
    /\ \E characterId \in IdArgs(storage, "characterIdCounter") :
        LET character == getCharacter(storage, characterId)
        IN IF character = Undefined
           THEN /\ Send(Response("DELETE /api/characters/:id", characterId, << >>, 404, << >>))
                /\ UNCHANGED storage
           ELSE LET d == deleteCharacter(storage, characterId)
                IN /\ storage' = d.s
                   /\ Send(Response("DELETE /api/characters/:id", characterId, << >>,
                                    IF d.r THEN 204 ELSE 500, << >>))
    /\ UNCHANGED <<now, pending, apiKey, appendFails, budget, page>>

\* app.post('/api/chat-messages')
POST_chat_messages ==
    /\ Accept
    /\ \E body \in ChatBodies(storage) :
        LET validatedData == parse(insertChatMessageSchema, Spread(body, [userId |-> 1]))
        IN IF validatedData = Undefined
           THEN /\ Send(Response("POST /api/chat-messages", 0, body, 400, << >>))
                /\ UNCHANGED storage
           ELSE LET c == createChatMessage(storage, validatedData[1], now)
                    newMessage == c.r
                    character == getCharacter(c.s, validatedData[1].characterId)
                    existingMessages ==
                        getChatMessagesByCharacter(c.s, validatedData[1].characterId)
                    logged ==
                        IF /\ character # Undefined
                           /\ validatedData[1].isUserMessage
                           /\ Len(existingMessages) <= 1
                        THEN AppendLog(c.s,
                                [worldId |-> character[1].worldId,
                                 activityType |-> "CHARACTER_CHAT",
                                 entityId |-> character[1].id,
                                 description |-> Desc("Conversation with", character[1].name)],
                                now)
                        ELSE [s |-> c.s, threw |-> FALSE]
                IN /\ storage' = logged.s
                   /\ Send(Caught(logged, Response("POST /api/chat-messages", 0, body, 201,
                                                   <<newMessage>>)))
    /\ UNCHANGED <<now, pending, apiKey, appendFails, budget, page>>

\* ------------------------------------------------- generator and analyzer
Fallback ==
    "I seem to be having trouble finding the right words. Perhaps we can try again in a moment?"

NeutralMood == [mood |-> "neutral", intensity |-> 5, dominantColor |-> "#808080"]

\* JavaScript values JSON.parse can produce; numbers between 0 and 1 are kept
\* in tenths
JsNull == [kind |-> "null"]
JsNumber(n) == [kind |-> "number", n |-> n]
JsObject(fields) == [kind |-> "object", fields |-> fields]

\* v.k for a value that is not null: undefined when v has no such property
Prop(v, k) ==
    IF v.kind = "object" /\ k \in DOMAIN v.fields THEN Some(v.fields[k]) ELSE Undefined

\* What fetch(..) and response.json() can yield: fetch rejects, the body is
\* not JSON, or the body is the JSON value data.
NetworkError == [kind |-> "networkError"]
NotJson == [kind |-> "notJson"]
JsonNull == [kind |-> "null"]
Json(data) == [kind |-> "json", data |-> data]

\* a body whose first candidate carries the text
Candidate(text) ==
    Json([candidates |-> <<[content |-> [parts |-> <<[text |-> text]>>]]>>])

\* replies without a first candidate's text
MalformedReplies ==
    { NetworkError, NotJson, JsonNull,
      Json([error |-> 1]),
      Json([candidates |-> << >>]),
      Json([candidates |-> <<[finishReason |-> 1]>>]),
      Json([candidates |-> <<[content |-> [role |-> 1]]>>]),
      Json([candidates |-> <<[content |-> [parts |-> << >>]]>>]),
      Json([candidates |-> <<[content |-> [parts |-> <<[inlineData |-> 1]>>]]>>]) }

\* ai.ts 59-91 and 125-153, from the reply to textResponse: "catch" when an
\* exception reaches the outer catch, "check" when the candidates check
\* fails, else the value of data.candidates[0].content.parts[0].text
textResponse(reply) ==
    IF reply.kind # "json"
    THEN [case |-> "catch"]
    ELSE LET data == reply.data
         IN IF \/ "candidates" \notin DOMAIN data
               \/ Len(data.candidates) = 0
               \/ "content" \notin DOMAIN data.candidates[1]
            THEN [case |-> "check"]
            ELSE LET content == data.candidates[1].content
                 IN IF "parts" \notin DOMAIN content \/ Len(content.parts) = 0
                    THEN [case |-> "catch"]
                    ELSE [case |-> "text",
                          text |-> IF "text" \in DOMAIN content.parts[1]
                                   THEN Some(content.parts[1].text)
                                   ELSE Undefined]

\* the number of messages kept as conversational context
ContextSize == 10

\* mutant: messages.slice(0, n)
SliceLast_First(xs, n) ==
    IF Len(xs) <= n THEN xs ELSE SubSeq(xs, 1, n)

\* messages.slice(-n)
SliceLast(xs, n) ==
    IF Len(xs) <= n THEN xs ELSE SubSeq(xs, Len(xs) - n + 1, Len(xs))

\* ai.ts 24-32
formattedMessages(messages) ==
    LET recentMessages == SliceLast(messages, ContextSize)
    IN [i \in 1..Len(recentMessages) |->
          [role |-> IF recentMessages[i].isUserMessage THEN "user" ELSE "assistant",
           content |-> recentMessages[i].content]]

\* ai.ts 64-74: the contents of the request; the character description is
\* kept as the name it is built around
contents(character, messages) ==
    LET formatted == formattedMessages(messages)
    IN <<[role |-> "user", text |-> character.name]>>
       \o [i \in 1..Len(formatted) |->
             [role |-> formatted[i].role, text |-> formatted[i].content]]

\* generateCharacterResponse(character, messages) given what the endpoint
\* mutant: no check of the credential before the call
generateCharacterResponse_AlwaysCalls(hasKey, character, messages, reply) ==
    LET t == textResponse(reply)
    IN [calls |-> <<contents(character, messages)>>,
        r |-> IF t.case = "text" THEN t.text ELSE Some(Fallback)]

\* generateCharacterResponse(character, messages) given what the endpoint
\* replies: the external calls it makes and the value it returns (a string,
\* or undefined)
generateCharacterResponse(hasKey, character, messages, reply) ==
    IF ~hasKey
    THEN [calls |-> << >>, r |-> Some(Fallback)]
    ELSE LET t == textResponse(reply)
         IN [calls |-> <<contents(character, messages)>>,
             r |-> IF t.case = "text" THEN t.text ELSE Some(Fallback)]

\* The text of a mood reply is a sequence of pieces: a markdown code fence
\* (three backquotes, with or without the word json), white space, or a run
\* of other characters.
Fences == { "[fence json]", "[fence]" }
WhiteSpace == { "\n" }

\* text.replace(.., "") with the pattern matching either fence, globally
RECURSIVE stripFences(_)
stripFences(text) ==
    IF text = << >> THEN << >>
    ELSE IF Head(text) \in Fences THEN stripFences(Tail(text))
    ELSE <<Head(text)>> \o stripFences(Tail(text))

\* text.trim()
RECURSIVE trim(_)
trim(text) ==
    IF text = << >> THEN << >>
    ELSE IF Head(text) \in WhiteSpace THEN trim(Tail(text))
    ELSE IF text[Len(text)] \in WhiteSpace THEN trim(SubSeq(text, 1, Len(text) - 1))
    ELSE text

HappyJson == "{\"mood\":\"happy\",\"intensity\":0.8,\"dominantColor\":\"#FFD700\"}"
HotJson == "{\"mood\":\"angry\",\"intensity\":1.5,\"dominantColor\":\"#FF0000\"}"
PartialJson == "{\"mood\":\"happy\"}"

\* JSON.parse(text): a SyntaxError unless the text is one JSON value
JSON_parse(text) ==
    IF Len(text) # 1 THEN [threw |-> TRUE]
    ELSE CASE text[1] = HappyJson ->
                [threw |-> FALSE,
                 value |-> JsObject([mood |-> "happy", intensity |-> 8,
                                     dominantColor |-> "#FFD700"])]
           [] text[1] = HotJson ->
                [threw |-> FALSE,
                 value |-> JsObject([mood |-> "angry", intensity |-> 15,
                                     dominantColor |-> "#FF0000"])]
           [] text[1] = PartialJson ->
                [threw |-> FALSE, value |-> JsObject([mood |-> "happy"])]
           [] text[1] = "null" -> [threw |-> FALSE, value |-> JsNull]
           [] text[1] = "7" -> [threw |-> FALSE, value |-> JsNumber(7)]
           [] OTHER -> [threw |-> TRUE]

\* texts the model may answer a mood prompt with
ModelTexts ==
    { <<HappyJson>>,
      <<"[fence json]", "\n", HappyJson, "\n", "[fence]">>,
      <<"\n", HotJson>>,
      <<PartialJson>>,
      <<"null">>,
      <<"[fence]", "7", "[fence]">>,
      <<"The mood is happy.">>,
      <<"[fence json]", "\n", "The mood is happy.", "\n", "[fence]">>,
      <<HappyJson, "\n", "Hope this helps!">>,
      << >> }

\* mutant: a JSON syntax error is not answered with the neutral default
analyzeMoodFromText_ParsesLoosely(hasKey, text, reply) ==
    LET t == textResponse(reply)
    IN [calls |-> IF hasKey THEN <<[role |-> "user", text |-> text]>> ELSE << >>,
        r |-> IF ~hasKey \/ t.case # "text" \/ t.text = Undefined
              THEN JsObject(NeutralMood)
              ELSE LET p == JSON_parse(trim(stripFences(t.text[1])))
                   IN IF p.threw THEN JsObject([mood |-> "unknown"]) ELSE p.value]

\* analyzeMoodFromText(text) given what the endpoint replies: the external
\* calls it makes and the value it returns
analyzeMoodFromText(hasKey, text, reply) ==
    IF ~hasKey
    THEN [calls |-> << >>, r |-> JsObject(NeutralMood)]
    ELSE LET t == textResponse(reply)
         IN [calls |-> <<[role |-> "user", text |-> text]>>,
             r |-> IF t.case # "text"
                   THEN JsObject(NeutralMood)
                   \* undefined.replace(..) throws into the outer catch
                   ELSE IF t.text = Undefined
                   THEN JsObject(NeutralMood)
                   ELSE LET p == JSON_parse(trim(stripFences(t.text[1])))
                        IN IF p.threw THEN JsObject(NeutralMood) ELSE p.value]

\* the replies the two functions are called with when called directly
AllGeneratorReplies == MalformedReplies \cup { Candidate("generated text") }
AllAnalyzerReplies == MalformedReplies \cup { Candidate(t) : t \in ModelTexts }

\* the replies the router's two calls are answered with: a failure, a
\* well-formed answer, and for the mood an answer that is JSON but no object
GeneratorReplies == { NetworkError, Candidate("generated text") }
AnalyzerReplies == { NetworkError, Candidate(<<HappyJson>>), Candidate(<<"null">>) }

\* a string or undefined as a JavaScript value
Text(r) == IF r = Undefined THEN Undefined ELSE r[1]

\* routes.ts 391-399: the reply is stored with the mood of the analysis
storeReply(s, character, response, moodAnalysis, t) ==
    createChatMessage(s,
        [characterId |-> character.id, userId |-> 1, isUserMessage |-> FALSE,
         content |-> Text(response),
         mood |-> Prop(moodAnalysis, "mood"),
         moodIntensity |-> Prop(moodAnalysis, "intensity"),
         moodColor |-> Prop(moodAnalysis, "dominantColor")], t)

\* mutant: the handler writes back the character object it read before its
\* awaits, this.characters.set(character.id, { ...character, ...mood })
updateMood_WritesBack(s, character, moodAnalysis) ==
    LET updatedCharacter ==
            Spread(character,
                   [currentMood |-> Prop(moodAnalysis, "mood"),
                    currentMoodIntensity |-> Prop(moodAnalysis, "intensity"),
                    currentMoodColor |-> Prop(moodAnalysis, "dominantColor")])
    IN [s |-> [s EXCEPT !.characters = Put(@, character.id, updatedCharacter)],
        r |-> Some(updatedCharacter)]

\* routes.ts 402-406: the character's current mood is updated
updateMood(s, character, moodAnalysis) ==
    updateCharacter(s, character.id,
        [currentMood |-> Prop(moodAnalysis, "mood"),
         currentMoodIntensity |-> Prop(moodAnalysis, "intensity"),
         currentMoodColor |-> Prop(moodAnalysis, "dominantColor")])

GenOp == "POST /api/generate-character-response"

\* the ids of the history the handler of request e read at routes.ts 382
HistoryOf(e) == [i \in 1..Len(e.messages) |-> e.messages[i].id]

\* Stages of the handler of the request at place i of the queue q (pending,
\* with a request just accepted at its end).

\* mutant: the handler has no catch block, the TypeError of reading
\* moodAnalysis.mood of null escapes and the request gets no response
Finish_Escapes(q, i, response, moodAnalysis) ==
    IF moodAnalysis.kind = "null"
    THEN /\ pending' = [q EXCEPT ![i].pc = "escaped"]
         /\ UNCHANGED <<storage, resp, nreq>>
    ELSE LET c == storeReply(storage, q[i].character, response, moodAnalysis, now)
         IN /\ storage' = c.s
            /\ pending' = [q EXCEPT ![i].pc = "update", ![i].response = response,
                                    ![i].moodAnalysis = moodAnalysis,
                                    ![i].newMessage = c.r.id]
            /\ UNCHANGED <<resp, nreq>>

\* routes.ts 390-399.  Reading moodAnalysis.mood of null throws before
\* anything is stored and the catch answers 500.  Otherwise the reply is
\* stored and the handler awaits the promise of createChatMessage, which is
\* settled: it goes on at CreateChatMessageReturns.
Finish(q, i, response, moodAnalysis) ==
    IF moodAnalysis.kind = "null"
    THEN /\ Send(Response(GenOp, q[i].characterId, HistoryOf(q[i]), 500, << >>))
         /\ pending' = RemoveAt(q, i)
         /\ UNCHANGED storage
    ELSE LET c == storeReply(storage, q[i].character, response, moodAnalysis, now)
         IN /\ storage' = c.s
            /\ pending' = [q EXCEPT ![i].pc = "update", ![i].response = response,
                                    ![i].moodAnalysis = moodAnalysis,
                                    ![i].newMessage = c.r.id]
            /\ UNCHANGED <<resp, nreq>>

\* routes.ts 388: analyzeMoodFromText(response) returns at once when it makes
\* no call, else the handler is suspended at its fetch
Analyze(q, i, response) ==
    LET a == analyzeMoodFromText(apiKey, response, NetworkError)
    IN IF a.calls = << >>
       THEN Finish(q, i, response, a.r)
       ELSE /\ pending' = [q EXCEPT ![i].pc = "analyze", ![i].response = response]
            /\ UNCHANGED <<storage, resp, nreq>>

\* app.post('/api/generate-character-response') up to its first external call.
\* characterId 0 stands for a body without characterId.
POST_generate_character_response ==
    /\ Accept
    /\ \E characterId \in {0} \cup IdArgs(storage, "characterIdCounter") :
        LET character == getCharacter(storage, characterId)
        IN IF characterId = 0
           THEN /\ Send(Response(GenOp, characterId, << >>, 400, << >>))
                /\ UNCHANGED <<storage, pending>>
           ELSE IF character = Undefined
           THEN /\ Send(Response(GenOp, characterId, << >>, 404, << >>))
                /\ UNCHANGED <<storage, pending>>
           ELSE LET messages == getChatMessagesByCharacter(storage, character[1].id)
                    g == generateCharacterResponse(apiKey, character[1], messages,
                                                   NetworkError)
                    e == [characterId |-> characterId, character |-> character[1],
                          messages |-> messages, pc |-> "generate",
                          response |-> Undefined, moodAnalysis |-> JsNull,
                          newMessage |-> 0]
                IN IF g.calls = << >>
                   THEN Analyze(Append(pending, e), Len(pending) + 1, g.r)
                   ELSE /\ Len(pending) < MaxPending
                        /\ pending' = Append(pending, e)
                        /\ UNCHANGED <<storage, resp, nreq>>
    /\ UNCHANGED <<now, apiKey, appendFails, budget, page>>

\* the fetch of generateCharacterResponse is answered: the function returns
\* and analyzeMoodFromText is called
GeneratorReturns ==
    /\ Idle
    /\ \E i \in 1..Len(pending), reply \in GeneratorReplies :
        /\ pending[i].pc = "generate"
        /\ Analyze(pending, i,
                   generateCharacterResponse(apiKey, pending[i].character,
                                             pending[i].messages, reply).r)
    /\ UNCHANGED <<now, apiKey, appendFails, budget, page>>

\* the fetch of analyzeMoodFromText is answered: the function returns and the
\* handler goes on to store the reply
AnalyzerReturns ==
    /\ Idle
    /\ \E i \in 1..Len(pending), reply \in AnalyzerReplies :
        /\ pending[i].pc = "analyze"
        /\ Finish(pending, i, pending[i].response,
                  analyzeMoodFromText(apiKey, pending[i].response, reply).r)
    /\ UNCHANGED <<now, apiKey, appendFails, budget, page>>

\* routes.ts 401-412: the handler goes on after createChatMessage, updates
\* the character's mood and responds
CreateChatMessageReturns ==
    /\ \E i \in 1..Len(pending) :
        /\ pending[i].pc = "update"
        /\ LET e == pending[i]
               u == updateMood(storage, e.character, e.moodAnalysis)
           IN /\ storage' = u.s
              /\ Send(Response(GenOp, e.characterId, HistoryOf(e), 200,
                               <<[message |-> Text(e.response),
                                  mood |-> e.moodAnalysis]>>))
        /\ pending' = RemoveAt(pending, i)
    /\ UNCHANGED <<now, apiKey, appendFails, budget, page>>

\* app.post('/api/scenes')
POST_scenes ==
    /\ Accept
    /\ \E body \in SceneBodies(storage) :
        LET validatedData == parse(insertSceneSchema, body)
        IN IF validatedData = Undefined
           THEN /\ Send(Response("POST /api/scenes", 0, body, 400, << >>))
                /\ UNCHANGED storage
           ELSE LET c == createScene(storage, validatedData[1], now)
                    newScene == c.r
                    a == AppendLog(c.s,
                            [worldId |-> newScene.worldId, activityType |-> "SCENE_CREATED",
                             entityId |-> newScene.id,
                             description |-> Desc("Created scene", newScene.title)], now)
                IN /\ storage' = a.s
                   /\ Send(Caught(a, Response("POST /api/scenes", 0, body, 201, <<newScene>>)))
    /\ UNCHANGED <<now, pending, apiKey, appendFails, budget, page>>

\* app.patch('/api/scenes/:id')
PATCH_scenes_id ==
    /\ Accept
    /\ \E sceneId \in IdArgs(storage, "sceneIdCounter"), body \in ScenePatches :
        LET scene == getScene(storage, sceneId)
        IN IF scene = Undefined
           THEN /\ Send(Response("PATCH /api/scenes/:id", sceneId, << >>, 404, << >>))
                /\ UNCHANGED storage
           ELSE LET u == updateScene(storage, sceneId, body)
                    a == AppendLog(u.s,
                            [worldId |-> scene[1].worldId, activityType |-> "SCENE_UPDATED",
                             entityId |-> sceneId,
                             description |-> Desc("Updated scene", scene[1].title)], now)
                IN /\ storage' = a.s
                   /\ Send(Caught(a, Response("PATCH /api/scenes/:id", sceneId, body, 200, u.r)))
    /\ UNCHANGED <<now, pending, apiKey, appendFails, budget, page>>

\* app.delete('/api/scenes/:id')
DELETE_scenes_id ==
    /\ Accept
    /\ \E sceneId \in IdArgs(storage, "sceneIdCounter") :
        LET scene == getScene(storage, sceneId)
        IN IF scene = Undefined
           THEN /\ Send(Response("DELETE /api/scenes/:id", sceneId, << >>, 404, << >>))
                /\ UNCHANGED storage
           ELSE LET d == deleteScene(storage, sceneId)
                IN /\ storage' = d.s
                   /\ Send(Response("DELETE /api/scenes/:id", sceneId, << >>,
                                    IF d.r THEN 204 ELSE 500, << >>))
    /\ UNCHANGED <<now, pending, apiKey, appendFails, budget, page>>

\* app.get('/api/worlds/:worldId/activity'); reqBody carries the limit query
GET_worlds_worldId_activity ==
    /\ Accept
    /\ \E worldId \in IdArgs(storage, "worldIdCounter"), limit \in Limits :
        LET world == getWorld(storage, worldId)
        IN IF world = Undefined
           THEN Send(Response("GET /api/worlds/:worldId/activity", worldId, << >>, 404, << >>))
           ELSE Send(Response("GET /api/worlds/:worldId/activity", worldId, limit, 200,
                              getActivityLogsByWorld(storage, worldId, limit)))
    /\ UNCHANGED <<storage, now, pending, apiKey, appendFails, budget, page>>

\* app.get('/api/worlds')
GET_worlds ==
    /\ Accept
    /\ Send(Response("GET /api/worlds", 0, << >>, 200, getWorldsByUser(storage, 1)))
    /\ UNCHANGED <<storage, now, pending, apiKey, appendFails, budget, page>>

\* app.get('/api/worlds/:id')
GET_worlds_id ==
    /\ Accept
    /\ \E worldId \in IdArgs(storage, "worldIdCounter") :
        LET world == getWorld(storage, worldId)
        IN IF world = Undefined
           THEN Send(Response("GET /api/worlds/:id", worldId, << >>, 404, << >>))
           ELSE Send(Response("GET /api/worlds/:id", worldId, << >>, 200, world))
    /\ UNCHANGED <<storage, now, pending, apiKey, appendFails, budget, page>>

\* Array.prototype.flat of worlds.map(world => getCharactersByWorld(world.id))
RECURSIVE FlatCharacters(_, _)
FlatCharacters(s, worlds) ==
    IF worlds = << >> THEN << >>
    ELSE getCharactersByWorld(s, Head(worlds).id) \o FlatCharacters(s, Tail(worlds))

\* app.get('/api/characters')
GET_characters ==
    /\ Accept
    /\ Send(Response("GET /api/characters", 0, << >>, 200,
                     FlatCharacters(storage, getWorldsByUser(storage, 1))))
    /\ UNCHANGED <<storage, now, pending, apiKey, appendFails, budget, page>>

\* app.get('/api/worlds/:worldId/characters')
GET_worlds_worldId_characters ==
    /\ Accept
    /\ \E worldId \in IdArgs(storage, "worldIdCounter") :
        LET world == getWorld(storage, worldId)
        IN IF world = Undefined
           THEN Send(Response("GET /api/worlds/:worldId/characters", worldId, << >>,
                              404, << >>))
           ELSE Send(Response("GET /api/worlds/:worldId/characters", worldId, << >>,
                              200, getCharactersByWorld(storage, worldId)))
    /\ UNCHANGED <<storage, now, pending, apiKey, appendFails, budget, page>>

\* app.get('/api/characters/:id')
GET_characters_id ==
    /\ Accept
    /\ \E characterId \in IdArgs(storage, "characterIdCounter") :
        LET character == getCharacter(storage, characterId)
        IN IF character = Undefined
           THEN Send(Response("GET /api/characters/:id", characterId, << >>, 404, << >>))
           ELSE Send(Response("GET /api/characters/:id", characterId, << >>, 200,
                              character))
    /\ UNCHANGED <<storage, now, pending, apiKey, appendFails, budget, page>>

\* app.get('/api/characters/:characterId/messages')
GET_characters_characterId_messages ==
    /\ Accept
    /\ \E characterId \in IdArgs(storage, "characterIdCounter") :
        LET character == getCharacter(storage, characterId)
        IN IF character = Undefined
           THEN Send(Response("GET /api/characters/:characterId/messages", characterId,
                              << >>, 404, << >>))
           ELSE Send(Response("GET /api/characters/:characterId/messages", characterId,
                              << >>, 200,
                              getChatMessagesByCharacter(storage, characterId)))
    /\ UNCHANGED <<storage, now, pending, apiKey, appendFails, budget, page>>

\* app.get('/api/worlds/:worldId/scenes')
GET_worlds_worldId_scenes ==
    /\ Accept
    /\ \E worldId \in IdArgs(storage, "worldIdCounter") :
        LET world == getWorld(storage, worldId)
        IN IF world = Undefined
           THEN Send(Response("GET /api/worlds/:worldId/scenes", worldId, << >>, 404,
                              << >>))
           ELSE Send(Response("GET /api/worlds/:worldId/scenes", worldId, << >>, 200,
                              getScenesByWorld(storage, worldId)))
    /\ UNCHANGED <<storage, now, pending, apiKey, appendFails, budget, page>>

\* app.get('/api/scenes/:id')
GET_scenes_id ==
    /\ Accept
    /\ \E sceneId \in IdArgs(storage, "sceneIdCounter") :
        LET scene == getScene(storage, sceneId)
        IN IF scene = Undefined
           THEN Send(Response("GET /api/scenes/:id", sceneId, << >>, 404, << >>))
           ELSE Send(Response("GET /api/scenes/:id", sceneId, << >>, 200, scene))
    /\ UNCHANGED <<storage, now, pending, apiKey, appendFails, budget, page>>

\* time passes between two handlers; a run of more than MaxReq requests has
\* one more clock reading for each of them
Tick ==
    /\ now < T0 + MaxTicks + (budget - MaxReq)
    /\ now' = now + 1
    /\ UNCHANGED <<storage, resp, pending, nreq, apiKey, appendFails, budget, page>>

Init ==
    /\ storage = NewMemStorage(T0)
    /\ now = T0
    /\ resp = Response("", 0, << >>, 0, << >>)
    /\ pending = << >>
    /\ nreq = 0
    /\ apiKey \in BOOLEAN
    /\ appendFails = FALSE
    /\ budget = MaxReq
    /\ page = NoPage

Next ==
    \/ POST_worlds
    \/ PATCH_worlds_id
    \/ DELETE_worlds_id
    \/ POST_characters
    \/ PATCH_characters_id
    \/ PATCH_characters_id_memory
    \/ DELETE_characters_id
    \/ POST_chat_messages
    \/ POST_generate_character_response
    \/ GeneratorReturns
    \/ AnalyzerReturns
    \/ CreateChatMessageReturns
    \/ POST_scenes
    \/ PATCH_scenes_id
    \/ DELETE_scenes_id
    \/ GET_worlds_worldId_activity
    \/ GET_worlds
    \/ GET_worlds_id
    \/ GET_characters
    \/ GET_worlds_worldId_characters
    \/ GET_characters_id
    \/ GET_characters_characterId_messages
    \/ GET_worlds_worldId_scenes
    \/ GET_scenes_id
    \/ Tick

Spec == Init /\ [][Next]_vars

\* The router in front of a store whose createActivityLog may reject.
\* MemStorage's own never does; IStorage only promises a Promise<ActivityLog>.
FaultInit ==
    /\ storage = NewMemStorage(T0)
    /\ now = T0
    /\ resp = Response("", 0, << >>, 0, << >>)
    /\ pending = << >>
    /\ nreq = 0
    /\ apiKey \in BOOLEAN
    /\ appendFails \in BOOLEAN
    /\ budget = MaxReq
    /\ page = NoPage

FaultSpec == FaultInit /\ [][Next]_vars

\* The router under the assumption that every external call eventually
\* returns or fails (fetch resolves or rejects) and that the event loop runs
\* every continuation that is ready.  The store may be one whose
\* createActivityLog rejects.
LiveSpec ==
    /\ FaultInit
    /\ [][Next]_vars
    /\ WF_vars(GeneratorReturns)
    /\ WF_vars(AnalyzerReturns)
    /\ WF_vars(CreateChatMessageReturns)

\* ------------------------------------------------- a scripted client
\* One client sends the requests of Script one after the other to the server
\* just constructed, each after the response to the one before; the clock
\* may advance between any two of them.
Script ==
    << "POST /api/worlds", "GET /api/worlds", "POST /api/characters",
       "GET /api/worlds/:worldId/characters", "GET /api/worlds/:worldId/activity" >>

\* the id of the world created last
LastWorld == storage.worldIdCounter - 1

Script_POST_worlds ==
    /\ nreq = 0
    /\ POST_worlds
    /\ resp'.status = 201

Script_GET_worlds ==
    /\ nreq = 1
    /\ GET_worlds

Script_POST_characters ==
    /\ nreq = 2
    /\ POST_characters
    /\ resp'.status = 201
    /\ resp'.body[1].worldId = LastWorld

Script_GET_worlds_worldId_characters ==
    /\ nreq = 3
    /\ GET_worlds_worldId_characters
    /\ resp'.id = LastWorld

Script_GET_worlds_worldId_activity ==
    /\ nreq = 4
    /\ GET_worlds_worldId_activity
    /\ resp'.id = LastWorld
    /\ resp'.reqBody = Undefined

ScriptInit ==
    /\ storage = NewMemStorage(T0)
    /\ now = T0
    /\ resp = Response("", 0, << >>, 0, << >>)
    /\ pending = << >>
    /\ nreq = 0
    /\ apiKey \in BOOLEAN
    /\ appendFails = FALSE
    /\ budget = Len(Script)
    /\ page = NoPage

ScriptNext ==
    \/ Script_POST_worlds
    \/ Script_GET_worlds
    \/ Script_POST_characters
    \/ Script_GET_worlds_worldId_characters
    \/ Script_GET_worlds_worldId_activity
    \/ Tick

ScriptSpec == ScriptInit /\ [][ScriptNext]_vars

\* ------------------------------------------------------ the chat page
\* CharacterChat (the page of one character) in front of the router.  page.chat
\* holds the POST /api/chat-messages requests the page has sent and has no
\* response to yet, page.seen counts the responses it has received.  The
\* server takes the requests in flight in any order.

\* handleSendMessage up to its await: createMessageMutation.mutate(..) is
\* not awaited, generateCharacterResponse(..) sends its request and awaits
\* the response.  The page only sends for a character it has loaded.
handleSendMessage ==
    /\ page.pc = "idle"
    /\ page' = [page EXCEPT !.pc = "generating",
                            !.chat = {[characterId |-> page.characterId,
                                       isUserMessage |-> TRUE, content |-> "hello"]}]
    /\ UNCHANGED <<storage, now, resp, pending, nreq, apiKey, appendFails, budget>>

\* lib/gemini.ts 115-124: data.response of the body of a 2xx response, the
\* fallback text otherwise
aiResponse(r) ==
    IF r.status = 200
    THEN (IF "response" \in DOMAIN r.body[1] THEN Some(r.body[1].response)
          ELSE Undefined)
    ELSE Some(ClientFallback)

\* handleSendMessage after its await: the character's message is sent;
\* a content of undefined is not in the JSON text of the body
Replied(r) ==
    [page EXCEPT !.pc = "done",
                 !.seen = nreq,
                 !.chat = @ \cup {IF aiResponse(r) = Undefined
                                  THEN [characterId |-> page.characterId,
                                        isUserMessage |-> FALSE]
                                  ELSE [characterId |-> page.characterId,
                                        isUserMessage |-> FALSE,
                                        content |-> aiResponse(r)[1]]}]

\* the page has received every response sent so far
Synced == page.seen = nreq

\* the response the server sent last reaches the page
Page_receives ==
    /\ ~Synced
    /\ page' = IF resp.op = GenOp THEN Replied(resp)
               ELSE [page EXCEPT !.seen = nreq, !.chat = @ \ {resp.reqBody}]
    /\ UNCHANGED <<storage, now, resp, pending, nreq, apiKey, appendFails, budget>>

\* the server takes a POST /api/chat-messages of the page
Page_POST_chat_messages ==
    /\ Synced
    /\ POST_chat_messages
    /\ resp'.reqBody \in page.chat

\* the server takes the POST /api/generate-character-response of the page
Page_POST_generate_character_response ==
    /\ Synced
    /\ page.pc = "generating"
    /\ pending = << >>
    /\ POST_generate_character_response
    /\ \/ nreq' = nreq + 1 /\ resp'.id = page.characterId
       \/ /\ Len(pending') > Len(pending)
          /\ pending'[Len(pending')].characterId = page.characterId

Page_GeneratorReturns == Synced /\ GeneratorReturns

Page_AnalyzerReturns == Synced /\ AnalyzerReturns

Page_CreateChatMessageReturns == Synced /\ CreateChatMessageReturns

\* the requests of one send: the user's message, the generate request and
\* the character's message
PageInit ==
    /\ storage = NewMemStorage(T0)
    /\ now = T0
    /\ resp = Response("", 0, << >>, 0, << >>)
    /\ pending = << >>
    /\ nreq = 0
    /\ apiKey \in BOOLEAN
    /\ appendFails = FALSE
    /\ budget = MaxReq + 1
    /\ page \in { [pc |-> "idle", characterId |-> c, chat |-> {}, seen |-> 0] :
                    c \in {1, 2} }

PageNext ==
    \/ handleSendMessage
    \/ Page_receives
    \/ Page_POST_chat_messages
    \/ Page_POST_generate_character_response
    \/ Page_GeneratorReturns
    \/ Page_AnalyzerReturns
    \/ Page_CreateChatMessageReturns
    \/ Tick

PageSpec == PageInit /\ [][PageNext]_vars

\* --------------------------------------------- the store used directly
\* The IStorage interface called without the router in front of it.
\* resp records the call: its name, id argument, payload, and return value.
InsertUsers == { [username |-> "alice", password |-> "secret"] }

InsertWorlds ==
    { [userId |-> 1, name |-> "Test", description |-> "description"],
      [userId |-> 1, name |-> "Test", description |-> "description", id |-> 1,
       createdAt |-> 0] }

InsertCharacters ==
    { [worldId |-> 1, name |-> "Hero", role |-> "Knight", personality |-> "Brave",
       memory |-> << >>],
      [worldId |-> 1, name |-> "Hero", role |-> "Knight", personality |-> "Brave",
       memory |-> [a |-> 1], id |-> 1, createdAt |-> 0] }

InsertScenes ==
    { [worldId |-> 3, title |-> "Scene", content |-> "content"],
      [worldId |-> 3, title |-> "Scene", content |-> "content", id |-> 1,
       createdAt |-> 0] }

InsertChatMessages ==
    { [characterId |-> 1, userId |-> 1, isUserMessage |-> TRUE, content |-> "hello"],
      [characterId |-> 1, userId |-> 1, isUserMessage |-> TRUE, content |-> "hello",
       id |-> 1, createdAt |-> 0] }

InsertActivityLogs ==
    { [worldId |-> 1, activityType |-> "WORLD_UPDATED", entityId |-> 1,
       description |-> Desc("Updated world", "Test")],
      [worldId |-> 1, activityType |-> "WORLD_UPDATED", entityId |-> 1,
       description |-> Desc("Updated world", "Test"), id |-> 1, createdAt |-> 0] }

Call(op, id, arg, c) ==
    /\ storage' = c.s
    /\ Send(Response(op, id, arg, 0, c.r))
    /\ UNCHANGED <<now, pending, apiKey, appendFails, budget, page>>

Created(c) == [s |-> c.s, r |-> <<c.r>>]

Store_createUser ==
    /\ Accept
    /\ \E u \in InsertUsers : Call("createUser", 0, u, Created(createUser(storage, u)))

Store_createWorld ==
    /\ Accept
    /\ \E w \in InsertWorlds :
        Call("createWorld", 0, w, Created(createWorld(storage, w, now)))

Store_updateWorld ==
    /\ Accept
    /\ \E id \in IdArgs(storage, "worldIdCounter"), data \in WorldPatches :
        Call("updateWorld", id, data, updateWorld(storage, id, data))

Store_deleteWorld ==
    /\ Accept
    /\ \E id \in IdArgs(storage, "worldIdCounter") :
        Call("deleteWorld", id, << >>, Created(deleteWorld(storage, id)))

Store_createCharacter ==
    /\ Accept
    /\ \E c \in InsertCharacters :
        Call("createCharacter", 0, c, Created(createCharacter(storage, c, now)))

Store_updateCharacter ==
    /\ Accept
    /\ \E id \in IdArgs(storage, "characterIdCounter"), data \in CharacterPatches :
        Call("updateCharacter", id, data, updateCharacter(storage, id, data))

Store_updateCharacterMemory ==
    /\ Accept
    /\ \E id \in IdArgs(storage, "characterIdCounter"), memory \in MemoryDocs :
        Call("updateCharacterMemory", id, memory,
             updateCharacterMemory(storage, id, memory))

Store_deleteCharacter ==
    /\ Accept
    /\ \E id \in IdArgs(storage, "characterIdCounter") :
        Call("deleteCharacter", id, << >>, Created(deleteCharacter(storage, id)))

Store_createScene ==
    /\ Accept
    /\ \E sc \in InsertScenes :
        Call("createScene", 0, sc, Created(createScene(storage, sc, now)))

Store_updateScene ==
    /\ Accept
    /\ \E id \in IdArgs(storage, "sceneIdCounter"), data \in ScenePatches :
        Call("updateScene", id, data, updateScene(storage, id, data))

Store_deleteScene ==
    /\ Accept
    /\ \E id \in IdArgs(storage, "sceneIdCounter") :
        Call("deleteScene", id, << >>, Created(deleteScene(storage, id)))

Store_createChatMessage ==
    /\ Accept
    /\ \E m \in InsertChatMessages :
        Call("createChatMessage", 0, m, Created(createChatMessage(storage, m, now)))

Store_createActivityLog ==
    /\ Accept
    /\ \E l \in InsertActivityLogs :
        Call("createActivityLog", 0, l, Created(createActivityLog(storage, l, now)))

StoreInit ==
    /\ Init
    /\ apiKey = FALSE

StoreNext ==
    \/ Store_createUser
    \/ Store_createWorld
    \/ Store_updateWorld
    \/ Store_deleteWorld
    \/ Store_createCharacter
    \/ Store_updateCharacter
    \/ Store_updateCharacterMemory
    \/ Store_deleteCharacter
    \/ Store_createScene
    \/ Store_updateScene
    \/ Store_deleteScene
    \/ Store_createChatMessage
    \/ Store_createActivityLog
    \/ Tick

StoreSpec == StoreInit /\ [][StoreNext]_vars

\* ------------------------------- the generator and the analyzer called
\* generateCharacterResponse and analyzeMoodFromText called without the router
\* in front of them, on Lyra (character 1) and her history as it grows.
\* pending holds the one external call in flight; resp records the call that
\* returned: the function, the endpoint's reply (reqBody) and the value
\* returned (body).
NoCall == [kind |-> "noCall"]

Returned(fn, reply, value) ==
    /\ resp' = Response(fn, 1, reply, 0, <<value>>)
    /\ pending' = << >>
    /\ UNCHANGED <<storage, now, nreq, apiKey, appendFails, budget, page>>

Called(fn, call, messages, text) ==
    /\ pending' = <<[fn |-> fn, call |-> call, messages |-> messages, text |-> text]>>
    /\ resp' = Response("", 0, << >>, 0, << >>)
    /\ UNCHANGED <<storage, now, nreq, apiKey, appendFails, budget, page>>

\* the history grows by a message from the user or from the character
Ai_createChatMessage ==
    /\ pending = << >>
    /\ Len(getChatMessagesByCharacter(storage, 1)) < MaxHistory
    /\ \E u \in BOOLEAN :
         storage' = createChatMessage(storage,
                        [characterId |-> 1, userId |-> 1, isUserMessage |-> u,
                         content |-> ToString(storage.chatMessageIdCounter)], now).s
    /\ UNCHANGED <<now, resp, pending, nreq, apiKey, appendFails, budget, page>>

Ai_generateCharacterResponse ==
    /\ pending = << >>
    /\ LET messages == getChatMessagesByCharacter(storage, 1)
           g == generateCharacterResponse(apiKey, storage.characters[1], messages,
                                          NetworkError)
       IN IF g.calls = << >>
          THEN Returned("generateCharacterResponse", NoCall, g.r)
          ELSE Called("generateCharacterResponse", g.calls[1], messages, Undefined)

Ai_generatorFetchReturns ==
    /\ pending # << >>
    /\ pending[1].fn = "generateCharacterResponse"
    /\ \E reply \in AllGeneratorReplies :
         Returned("generateCharacterResponse", reply,
                  generateCharacterResponse(apiKey, storage.characters[1],
                                            pending[1].messages, reply).r)

\* the texts handed to the analyzer: what the generator can return
AnalyzerInputs == { Some("generated text"), Some(Fallback), Undefined }

Ai_analyzeMoodFromText ==
    /\ pending = << >>
    /\ \E text \in AnalyzerInputs :
         LET a == analyzeMoodFromText(apiKey, text, NetworkError)
         IN IF a.calls = << >>
            THEN Returned("analyzeMoodFromText", NoCall, a.r)
            ELSE Called("analyzeMoodFromText", a.calls[1], << >>, text)

Ai_analyzerFetchReturns ==
    /\ pending # << >>
    /\ pending[1].fn = "analyzeMoodFromText"
    /\ \E reply \in AllAnalyzerReplies :
         Returned("analyzeMoodFromText", reply,
                  analyzeMoodFromText(apiKey, pending[1].text, reply).r)

AiNext ==
    \/ Ai_createChatMessage
    \/ Ai_generateCharacterResponse
    \/ Ai_generatorFetchReturns
    \/ Ai_analyzeMoodFromText
    \/ Ai_analyzerFetchReturns

AiSpec == Init /\ [][AiNext]_vars

\* ================================================================ claims
\* a request was answered in this step
Answered(op) == nreq' = nreq + 1 /\ resp'.op = op

\* C1: in every reachable store state every Character, Scene and ActivityLog
\* has a worldId that is the id of a stored World, and every ChatMessage has
\* a characterId that is the id of a stored Character.
C1_ReferentialIntegrity ==
    /\ \A k \in DOMAIN storage.characters :
          storage.characters[k].worldId \in DOMAIN storage.worlds
    /\ \A k \in DOMAIN storage.scenes :
          storage.scenes[k].worldId \in DOMAIN storage.worlds
    /\ \A k \in DOMAIN storage.activityLogs :
          storage.activityLogs[k].worldId \in DOMAIN storage.worlds
    /\ \A k \in DOMAIN storage.chatMessages :
          storage.chatMessages[k].characterId \in DOMAIN storage.characters

EntityMaps ==
    {"users", "worlds", "characters", "scenes", "chatMessages", "activityLogs"}

\* C2: for each entity type, every id a create operation returns is strictly
\* greater than every id issued before it for that type (seeded ids and ids
\* of deleted entities included), so no id is issued twice: the ids issued
\* for a type, in the order of issue, are strictly increasing.
C2_IdsStrictlyIncreasing ==
    \A m \in EntityMaps :
        \A i, j \in 1..Len(storage.issued[m]) :
            i < j => storage.issued[m][i] < storage.issued[m][j]

\* C2 witness: a world was created after a seeded world had been deleted
C2_Witness ==
    /\ resp.op = "createWorld"
    /\ resp.body[1].id = 4
    /\ \E i \in 1..Len(storage.issued.worlds) :
          storage.issued.worlds[i] \notin DOMAIN storage.worlds

\* the memory document of a stored character, {} when it has none
MemoryAt(characters, id) ==
    IF "memory" \in DOMAIN characters[id] THEN characters[id].memory ELSE << >>

\* doc's keys carry doc's values and every other key of old keeps its value
IsShallowMerge(new, old, doc) ==
    /\ DOMAIN new = DOMAIN old \cup DOMAIN doc
    /\ \A k \in DOMAIN doc : new[k] = doc[k]
    /\ \A k \in DOMAIN old \ DOMAIN doc : new[k] = old[k]

\* all fields but `field` are those of old
SameBut(new, old, field) ==
    /\ DOMAIN new = DOMAIN old \cup {field}
    /\ \A f \in DOMAIN old \ {field} : new[f] = old[f]

\* C3 (as claimed): the store operation updateCharacterMemory(id, doc)
\* shallow-merges doc into the existing memory: every key of doc takes doc's
\* value and every key of the previous memory absent from doc keeps its value.
C3_StoreMemoryMerges ==
    [][ (Answered("updateCharacterMemory") /\ resp'.id \in DOMAIN storage.characters)
        => IsShallowMerge(storage'.characters[resp'.id].memory,
                          MemoryAt(storage.characters, resp'.id), resp'.reqBody) ]_vars

\* C3 (amended): updateCharacterMemory(id, doc) on an existing character
\* replaces the memory document by doc, keys of the previous memory absent
\* from doc being dropped, leaves every other field of the character and
\* every other character unchanged, and returns the updated character.
C3_StoreMemoryReplaces ==
    [][ (Answered("updateCharacterMemory") /\ resp'.id \in DOMAIN storage.characters)
        => LET id == resp'.id
           IN /\ DOMAIN storage'.characters = DOMAIN storage.characters
              /\ storage'.characters[id].memory = resp'.reqBody
              /\ SameBut(storage'.characters[id], storage.characters[id], "memory")
              /\ \A k \in DOMAIN storage.characters \ {id} :
                    storage'.characters[k] = storage.characters[k]
              /\ resp'.body = <<storage'.characters[id]>> ]_vars

\* C3 witness: Lyra's seeded memory {interactions, events} was replaced by {b: 2}
C3_Witness ==
    /\ resp.op = "updateCharacterMemory"
    /\ resp.id = 1
    /\ resp.reqBody = [b |-> 2]
    /\ resp.body # << >>
    /\ DOMAIN storage.characters[1].memory = {"b"}

\* C4: PATCH /characters/:id/memory with body B on an existing character
\* answers 200, stores and returns a memory that is the shallow key union of
\* the memory at request time and B, and changes no other field of the
\* character and no other character.
C4_PatchMemoryMerges ==
    [][ (Answered("PATCH /api/characters/:id/memory")
            /\ resp'.id \in DOMAIN storage.characters)
        => LET id == resp'.id
           IN /\ resp'.status = 200
              /\ DOMAIN storage'.characters = DOMAIN storage.characters
              /\ IsShallowMerge(storage'.characters[id].memory,
                                MemoryAt(storage.characters, id), resp'.reqBody)
              /\ SameBut(storage'.characters[id], storage.characters[id], "memory")
              /\ \A k \in DOMAIN storage.characters \ {id} :
                    storage'.characters[k] = storage.characters[k]
              /\ resp'.body = <<storage'.characters[id]>> ]_vars

\* C4 witness: after PATCH {a: 1} and PATCH {b: 2} Lyra's memory holds both
\* keys beside the seeded ones
C4_Witness ==
    /\ resp.op = "PATCH /api/characters/:id/memory"
    /\ resp.status = 200
    /\ resp.id = 1
    /\ resp.reqBody = [b |-> 2]
    /\ DOMAIN resp.body[1].memory = {"interactions", "events", "a", "b"}
    /\ resp.body[1].memory.a = 1

CreateOps ==
    { [op |-> "createWorld", map |-> "worlds", counter |-> "worldIdCounter"],
      [op |-> "createCharacter", map |-> "characters", counter |-> "characterIdCounter"],
      [op |-> "createScene", map |-> "scenes", counter |-> "sceneIdCounter"],
      [op |-> "createChatMessage", map |-> "chatMessages",
       counter |-> "chatMessageIdCounter"],
      [op |-> "createActivityLog", map |-> "activityLogs",
       counter |-> "activityLogIdCounter"] }

\* C5: every create operation stores the entity under the next sequential id
\* of its type with createdAt read from the store's clock; an id or createdAt
\* of the insert payload is not in the stored entity, whose other fields are
\* the payload's.
C5_CreateAssignsIdAndCreatedAt ==
    [][ \A c \in CreateOps :
          Answered(c.op)
          => LET id == storage[c.counter]
                 payload == resp'.reqBody
             IN /\ storage'[c.counter] = id + 1
                /\ DOMAIN storage'[c.map] = DOMAIN storage[c.map] \cup {id}
                /\ storage'[c.map][id].id = id
                /\ storage'[c.map][id].createdAt = now
                /\ DOMAIN storage'[c.map][id] = DOMAIN payload \cup {"id", "createdAt"}
                /\ \A f \in DOMAIN payload \ {"id", "createdAt"} :
                      storage'[c.map][id][f] = payload[f]
                /\ resp'.body = <<storage'[c.map][id]>> ]_vars

\* C5 witness: a character was created from a payload carrying id and createdAt
C5_Witness ==
    /\ resp.op = "createCharacter"
    /\ "id" \in DOMAIN resp.reqBody
    /\ "createdAt" \in DOMAIN resp.reqBody
    /\ resp.body[1].id # resp.reqBody.id
    /\ resp.body[1].createdAt # resp.reqBody.createdAt

DeleteOps ==
    { [op |-> "deleteWorld", map |-> "worlds"],
      [op |-> "deleteCharacter", map |-> "characters"],
      [op |-> "deleteScene", map |-> "scenes"] }

GetAfter(op, s, id) ==
    CASE op = "deleteWorld" -> getWorld(s, id)
      [] op = "deleteCharacter" -> getCharacter(s, id)
      [] op = "deleteScene" -> getScene(s, id)

DeleteAgain(op, s, id) ==
    CASE op = "deleteWorld" -> deleteWorld(s, id)
      [] op = "deleteCharacter" -> deleteCharacter(s, id)
      [] op = "deleteScene" -> deleteScene(s, id)

\* C6: for World, Character and Scene, delete(id) returns false and leaves
\* the store unchanged when no entity has that id; otherwise it returns
\* true, get(id) is then undefined and a second delete(id) returns false.
C6_DeleteContract ==
    [][ \A d \in DeleteOps :
          Answered(d.op)
          => LET id == resp'.id
             IN IF id \notin DOMAIN storage[d.map]
                THEN resp'.body = <<FALSE>> /\ storage' = storage
                ELSE /\ resp'.body = <<TRUE>>
                     /\ GetAfter(d.op, storage', id) = Undefined
                     /\ DeleteAgain(d.op, storage', id).r = FALSE ]_vars

\* C6 witness: the seeded scene 1 was deleted and a second delete returned false
C6_Witness ==
    /\ resp.op = "deleteScene"
    /\ resp.id = 1
    /\ resp.body = <<FALSE>>

\* the list holds exactly the entities of map whose field is v, each once
ListsExactly(list, map, field, v) ==
    LET keys == { k \in DOMAIN map : map[k][field] = v }
    IN /\ Len(list) = Cardinality(keys)
       /\ \A k \in keys : \E i \in 1..Len(list) : list[i] = map[k]
       /\ \A i \in 1..Len(list) : \E k \in keys : list[i] = map[k]

ParentIds(map, field, counter) ==
    { map[k][field] : k \in DOMAIN map } \cup (1..counter)

\* C7: getScenesByWorld(w) returns exactly the stored scenes of world w, each
\* once, by createdAt descending; getChatMessagesByCharacter(c) returns
\* exactly the stored messages of character c, each once, by createdAt
\* ascending, and a message created later (greater id) never precedes one
\* created earlier.
C7_ListOrder ==
    /\ \A w \in ParentIds(storage.scenes, "worldId", storage.worldIdCounter) :
          LET list == getScenesByWorld(storage, w)
          IN /\ ListsExactly(list, storage.scenes, "worldId", w)
             /\ \A i, j \in 1..Len(list) :
                   i < j => list[i].createdAt >= list[j].createdAt
    /\ \A c \in ParentIds(storage.chatMessages, "characterId",
                          storage.characterIdCounter) :
          LET list == getChatMessagesByCharacter(storage, c)
          IN /\ ListsExactly(list, storage.chatMessages, "characterId", c)
             /\ \A i, j \in 1..Len(list) :
                   i < j => /\ list[i].createdAt <= list[j].createdAt
                            /\ list[i].id < list[j].id

\* C7 witness: two messages of one character were created at the same clock
\* reading
C7_Witness ==
    \E k1, k2 \in DOMAIN storage.chatMessages :
        /\ k1 < k2
        /\ storage.chatMessages[k1].characterId = storage.chatMessages[k2].characterId
        /\ storage.chatMessages[k1].createdAt = storage.chatMessages[k2].createdAt
        /\ Len(getChatMessagesByCharacter(storage, storage.chatMessages[k1].characterId)) >= 2

ActivityOp == "GET /api/worlds/:worldId/activity"

\* C8: GET /worlds/:worldId/activity?limit=N returns the world's entries by
\* createdAt descending; with a limit N supplied the result has at most N
\* entries and is the first N entries of the uncapped list; without a limit
\* it is the whole list.
C8_ActivityLimit ==
    (resp.op = ActivityOp /\ resp.status = 200)
    => LET all == SortByCreatedAt(
                     FilterBy(Values(storage.activityLogs), "worldId", resp.id), TRUE)
           limit == resp.reqBody
       IN /\ ListsExactly(all, storage.activityLogs, "worldId", resp.id)
          /\ \A i, j \in 1..Len(all) : i < j => all[i].createdAt >= all[j].createdAt
          /\ limit = Undefined => resp.body = all
          /\ limit # Undefined =>
                /\ Len(resp.body) <= limit[1]
                /\ resp.body = SubSeq(all, 1, IF limit[1] < Len(all) THEN limit[1]
                                              ELSE Len(all))

\* C9: the activity log is append-only: no step of the router or the store
\* removes a stored ActivityLog entry or changes any of its fields, also not
\* the deletion of the world, character or scene it refers to.
C9_ActivityLogAppendOnly ==
    [][ \A k \in DOMAIN storage.activityLogs :
          /\ k \in DOMAIN storage'.activityLogs
          /\ storage'.activityLogs[k] = storage.activityLogs[k] ]_vars

\* C9 witness: world 1 was deleted and its three seeded entries are still stored
C9_Witness ==
    /\ resp.op = "DELETE /api/worlds/:id"
    /\ resp.status = 204
    /\ resp.id = 1
    /\ Cardinality({ k \in DOMAIN storage.activityLogs :
                       storage.activityLogs[k].worldId = 1 }) = 3

\* the router paths that create or update a World, Character or Scene, with
\* the activityType their entry carries and whether they answer with the
\* created entity (whose id is then the entityId)
LoggedOps ==
    { [op |-> "POST /api/worlds", type |-> "WORLD_CREATED", creates |-> TRUE],
      [op |-> "PATCH /api/worlds/:id", type |-> "WORLD_UPDATED", creates |-> FALSE],
      [op |-> "POST /api/characters", type |-> "CHARACTER_CREATED", creates |-> TRUE],
      [op |-> "PATCH /api/characters/:id", type |-> "CHARACTER_UPDATED",
       creates |-> FALSE],
      [op |-> "PATCH /api/characters/:id/memory", type |-> "CHARACTER_UPDATED",
       creates |-> FALSE],
      [op |-> "POST /api/generate-character-response", type |-> "CHARACTER_UPDATED",
       creates |-> FALSE],
      [op |-> "POST /api/scenes", type |-> "SCENE_CREATED", creates |-> TRUE],
      [op |-> "PATCH /api/scenes/:id", type |-> "SCENE_UPDATED", creates |-> FALSE] }

\* C10: every router path that successfully creates or updates a World,
\* Character or Scene appends exactly one ActivityLog entry with the
\* matching activityType and entityId before responding; PATCH
\* /characters/:id/memory and POST /generate-character-response included.
C10_EveryMutationLogged ==
    [][ \A m \in LoggedOps :
          (Answered(m.op) /\ resp'.status \in {200, 201})
          => LET added == DOMAIN storage'.activityLogs \ DOMAIN storage.activityLogs
             IN /\ Cardinality(added) = 1
                /\ \A k \in added :
                      /\ storage'.activityLogs[k].activityType = m.type
                      /\ storage'.activityLogs[k].entityId =
                            IF m.creates THEN resp'.body[1].id ELSE resp'.id ]_vars

ChatOp == "POST /api/chat-messages"

\* the CHARACTER_CHAT entries among a set of activity-log ids
ChatEntries(logs, ids) ==
    { k \in ids : logs[k].activityType = "CHARACTER_CHAT" }

\* C11: when POST /chat-messages stores the first user message ever sent to
\* an existing character, exactly one CHARACTER_CHAT entry for that
\* character and its world is appended; no other step appends a
\* CHARACTER_CHAT entry, and the router creates at most one per character.
C11_ChatLoggedOnFirstUserMessage ==
    [][ LET added == DOMAIN storage'.activityLogs \ DOMAIN storage.activityLogs
            chat == ChatEntries(storage'.activityLogs, added)
            c == resp'.reqBody.characterId
            first ==
                /\ Answered(ChatOp)
                /\ resp'.status = 201
                /\ resp'.reqBody.isUserMessage
                /\ c \in DOMAIN storage.characters
                /\ \A k \in DOMAIN storage.chatMessages :
                      ~ ( /\ storage.chatMessages[k].characterId = c
                          /\ storage.chatMessages[k].isUserMessage )
        IN /\ first => /\ Cardinality(chat) = 1
                       /\ \A k \in chat :
                             /\ storage'.activityLogs[k].entityId = c
                             /\ storage'.activityLogs[k].worldId =
                                   storage.characters[c].worldId
           /\ ~first => chat = {}
           /\ \A ch \in DOMAIN storage'.characters :
                 Cardinality({ k \in ChatEntries(storage'.activityLogs,
                                                 DOMAIN storage'.activityLogs) :
                                 /\ k >= SeededStorage.activityLogIdCounter
                                 /\ storage'.activityLogs[k].entityId = ch }) <= 1 ]_vars

\* the create and update requests that append an activity entry, with the
\* map and counter of the entity they write
AppendingOps ==
    { [op |-> "POST /api/worlds", map |-> "worlds", counter |-> "worldIdCounter",
       creates |-> TRUE],
      [op |-> "PATCH /api/worlds/:id", map |-> "worlds", counter |-> "worldIdCounter",
       creates |-> FALSE],
      [op |-> "POST /api/characters", map |-> "characters",
       counter |-> "characterIdCounter", creates |-> TRUE],
      [op |-> "PATCH /api/characters/:id", map |-> "characters",
       counter |-> "characterIdCounter", creates |-> FALSE],
      [op |-> "POST /api/scenes", map |-> "scenes", counter |-> "sceneIdCounter",
       creates |-> TRUE],
      [op |-> "PATCH /api/scenes/:id", map |-> "scenes", counter |-> "sceneIdCounter",
       creates |-> FALSE] }

C13_LastTenMessagesSent ==
    \A k \in 1..Len(pending) :
       pending[k].fn = "generateCharacterResponse"
       => LET history == pending[k].messages
              n == IF Len(history) < 10 THEN Len(history) ELSE 10
              sent == Tail(pending[k].call)
          IN /\ Len(sent) = n
             /\ \A i \in 1..n :
                   LET msg == history[Len(history) - n + i]
                   IN /\ sent[i].text = msg.content
                      /\ sent[i].role = IF msg.isUserMessage THEN "user" ELSE "assistant"

\* C13 witness: a call is in flight for a history of more than ten messages
C13_Witness ==
    /\ pending # << >>
    /\ pending[1].fn = "generateCharacterResponse"
    /\ Len(pending[1].messages) > 10
    /\ Len(pending[1].call) = 11

\* the reply is a JSON body whose first candidate has a first part with text
CarriesText(reply) ==
    /\ reply.kind = "json"
    /\ "candidates" \in DOMAIN reply.data
    /\ Len(reply.data.candidates) >= 1
    /\ "content" \in DOMAIN reply.data.candidates[1]
    /\ "parts" \in DOMAIN reply.data.candidates[1].content
    /\ Len(reply.data.candidates[1].content.parts) >= 1
    /\ "text" \in DOMAIN reply.data.candidates[1].content.parts[1]

\* C14: generateCharacterResponse returns the fixed fallback string for
\* every outcome of the external call but one: a reply that carries a first
\* candidate with text, for which it returns that text verbatim.
C14_GeneratorFallback ==
    resp.op = "generateCharacterResponse"
    => \/ resp.body[1] = Some(Fallback)
       \/ /\ CarriesText(resp.reqBody)
          /\ resp.body[1] = Some(resp.reqBody.data.candidates[1].content.parts[1].text)

\* C15: with no credential configured neither function performs a network
\* call: no external call is ever in flight, and POST
\* /generate-character-response answers with the fixed fallback string and
\* the neutral default mood.
C15_NoCallWithoutCredential ==
    ~apiKey
    => /\ \A i \in 1..Len(pending) : pending[i].pc \notin {"generate", "analyze"}
       /\ (resp.op = GenOp /\ resp.status = 200)
          => /\ resp.body[1].message = Fallback
             /\ resp.body[1].mood = JsObject(NeutralMood)

\* C15 witness: a generate request was served without a credential
C15_Witness ==
    /\ ~apiKey
    /\ resp.op = GenOp
    /\ resp.status = 200
    /\ resp.body[1].message = Fallback

AnalyzeFn == "analyzeMoodFromText"

\* the text of the reply's first candidate, fences stripped and trimmed
JsonText(reply) ==
    trim(stripFences(reply.data.candidates[1].content.parts[1].text))

\* C16: analyzeMoodFromText returns exactly {mood: "neutral", intensity: 0.5,
\* dominantColor: "#808080"} on a missing credential, a network failure, an
\* empty candidate list, and on model output that, code fences stripped,
\* does not parse as JSON.
C16_AnalyzerNeutralDefault ==
    LET reply == resp.reqBody
    IN ( /\ resp.op = AnalyzeFn
         /\ \/ reply = NoCall
            \/ reply = NetworkError
            \/ reply = Json([candidates |-> << >>])
            \/ CarriesText(reply) /\ JSON_parse(JsonText(reply)).threw )
       => resp.body[1] = JsObject(NeutralMood)

\* C16 witness: the model answered with a fenced text that is not JSON
C16_Witness ==
    /\ resp.op = AnalyzeFn
    /\ resp.reqBody =
          Candidate(<<"[fence json]", "\n", "The mood is happy.", "\n", "[fence]">>)
    /\ resp.body[1] = JsObject(NeutralMood)

\* a value is a mood record: mood a string, intensity within [0, 1] (in
\* tenths), dominantColor a hex color string
IsMoodAnalysis(v) ==
    /\ v.kind = "object"
    /\ DOMAIN v.fields = {"mood", "intensity", "dominantColor"}
    /\ v.fields.mood \in {"neutral", "happy", "angry"}
    /\ v.fields.intensity \in 0..10
    /\ v.fields.dominantColor \in {"#808080", "#FFD700", "#FF0000"}

\* C17: whatever the endpoint replies, analyzeMoodFromText returns a record
\* with mood, intensity within [0,1] and dominantColor; JSON output that is
\* not such a record (null, a number, missing fields, intensity out of
\* range) is never returned.
C17_AnalyzerReturnsMoodRecord ==
    resp.op = AnalyzeFn => IsMoodAnalysis(resp.body[1])

\* the ids of the chat messages a step has stored
NewMessages == DOMAIN storage'.chatMessages \ DOMAIN storage.chatMessages

\* the generate requests whose handler has stored its reply and is about to
\* update the character and respond
Persisting == { i \in 1..Len(pending) : pending[i].pc = "update" }

\* C18: for an existing character POST /generate-character-response answers
\* 200 with a message and a mood whatever the two external calls come back
\* with, having stored exactly one new message of the character
\* (isUserMessage false).
C18_GenerateAlwaysAnswers200 ==
    [][ /\ (Answered(GenOp) /\ resp'.status \notin {400, 404})
           => /\ resp'.status = 200
              /\ Len(resp'.body) = 1
              /\ \E i \in Persisting :
                    /\ pending' = RemoveAt(pending, i)
                    /\ pending[i].newMessage \in DOMAIN storage'.chatMessages
                    /\ storage'.chatMessages[pending[i].newMessage].isUserMessage = FALSE
        /\ \A i \in 1..Len(pending') :
              (pending'[i].pc = "update" /\ i \notin Persisting)
              => NewMessages = {pending'[i].newMessage} ]_vars

\* C19: when POST /generate-character-response answers 200 for character c,
\* the store holds the new ChatMessage of c with isUserMessage false, the
\* generator's output as content and the analyzer's result as mood,
\* moodIntensity and moodColor; the Character record c carries the same mood
\* values; and the response body reports that text and mood.
C19_ReplyAndMoodPersisted ==
    [][ (Answered(GenOp) /\ resp'.status = 200)
        => LET c == resp'.id
               b == resp'.body[1]
           IN /\ c \in DOMAIN storage'.characters
              /\ \E i \in Persisting :
                    /\ pending' = RemoveAt(pending, i)
                    /\ pending[i].newMessage \in DOMAIN storage'.chatMessages
                    /\ LET msg == storage'.chatMessages[pending[i].newMessage]
                           ch == storage'.characters[c]
                       IN /\ msg.characterId = c
                          /\ msg.isUserMessage = FALSE
                          /\ msg.content = b.message
                          /\ msg.mood = Prop(b.mood, "mood")
                          /\ msg.moodIntensity = Prop(b.mood, "intensity")
                          /\ msg.moodColor = Prop(b.mood, "dominantColor")
                          /\ {"currentMood", "currentMoodIntensity", "currentMoodColor"}
                                \subseteq DOMAIN ch
                          /\ ch.currentMood = msg.mood
                          /\ ch.currentMoodIntensity = msg.moodIntensity
                          /\ ch.currentMoodColor = msg.moodColor ]_vars

ValidatedOps ==
    { [op |-> "POST /api/worlds", required |-> {"name", "description"},
       map |-> "worlds", counter |-> "worldIdCounter"],
      [op |-> "POST /api/characters",
       required |-> {"worldId", "name", "role", "personality"},
       map |-> "characters", counter |-> "characterIdCounter"],
      [op |-> "POST /api/scenes", required |-> {"worldId", "title", "content"},
       map |-> "scenes", counter |-> "sceneIdCounter"],
      [op |-> ChatOp, required |-> {"characterId", "isUserMessage", "content"},
       map |-> "chatMessages", counter |-> "chatMessageIdCounter"] }

\* a required field of the body is missing or wrongly typed
FailsValidation(v, body) ==
    \E k \in v.required : k \notin DOMAIN body \/ k \in Mistyped(body)

\* C21: a create request (POST /worlds, /characters, /scenes, /chat-messages)
\* whose body lacks a required field or has one wrongly typed is answered 400
\* and leaves the whole store unchanged: no entity, no ActivityLog entry, no
\* id counter advanced; a valid create that follows gets the id it would
\* have got without the failed request.
C21_ValidationFailureChangesNothing ==
    [][ \A v \in ValidatedOps :
          Answered(v.op)
          => /\ FailsValidation(v, resp'.reqBody) <=> resp'.status = 400
             /\ resp'.status = 400 => storage' = storage
             /\ resp'.status = 201 =>
                   /\ resp'.body[1].id = storage[v.counter]
                   /\ resp.op = v.op /\ resp.status = 400
                       => resp'.body[1].id \notin DOMAIN storage[v.map] ]_vars

\* C21 witness: a POST /characters whose worldId is wrongly typed was refused
\* after a character had been created, and the counter still holds the id
\* after that character's (5, the seed having issued 1..3)
C21_Witness ==
    /\ resp.op = "POST /api/characters"
    /\ resp.status = 400
    /\ "worldId" \in Mistyped(resp.reqBody)
    /\ nreq = 2
    /\ storage.characterIdCounter = 5
    /\ DOMAIN storage.characters = 1..4

\* the router paths that name a World, Character or Scene by id in the URL
AddressedOps ==
    { [op |-> o, map |-> "worlds"] :
        o \in {"GET /api/worlds/:id", "PATCH /api/worlds/:id", "DELETE /api/worlds/:id",
               "GET /api/worlds/:worldId/characters", "GET /api/worlds/:worldId/scenes",
               "GET /api/worlds/:worldId/activity"} }
    \cup { [op |-> o, map |-> "characters"] :
        o \in {"GET /api/characters/:id", "PATCH /api/characters/:id",
               "PATCH /api/characters/:id/memory", "DELETE /api/characters/:id",
               "GET /api/characters/:characterId/messages"} }
    \cup { [op |-> o, map |-> "scenes"] :
        o \in {"GET /api/scenes/:id", "PATCH /api/scenes/:id", "DELETE /api/scenes/:id"} }

\* update(id, patch) of an id that is not stored returns undefined and
\* leaves the store s as it is
UpdateOfUnknownId(s) ==
    /\ \A id \in IdArgs(s, "worldIdCounter") \ DOMAIN s.worlds, data \in WorldPatches :
          updateWorld(s, id, data) = [s |-> s, r |-> Undefined]
    /\ \A id \in IdArgs(s, "characterIdCounter") \ DOMAIN s.characters,
          data \in CharacterPatches :
          updateCharacter(s, id, data) = [s |-> s, r |-> Undefined]
    /\ \A id \in IdArgs(s, "sceneIdCounter") \ DOMAIN s.scenes, data \in ScenePatches :
          updateScene(s, id, data) = [s |-> s, r |-> Undefined]

C23_EndToEndScenario ==
    /\ nreq >= 1 => LastWorld \notin DOMAIN SeededStorage.worlds
    /\ nreq = 1 => resp.status = 201 /\ resp.body[1].id = LastWorld
    /\ nreq = 2 => \E i \in 1..Len(resp.body) : resp.body[i] = storage.worlds[LastWorld]
    /\ nreq = 3 => resp.status = 201 /\ resp.body[1].worldId = LastWorld
    /\ nreq = 4 => /\ resp.status = 200
                   /\ Len(resp.body) = 1
                   /\ resp.body[1].id = storage.characterIdCounter - 1
                   /\ resp.body[1].name = "Hero"
    /\ nreq = 5 => /\ resp.status = 200
                   /\ Len(resp.body) = 2
                   /\ resp.body[1].activityType = "CHARACTER_CREATED"
                   /\ resp.body[2].activityType = "WORLD_CREATED"

\* the requests accepted so far: those answered and those pending
Accepted == nreq + Len(pending)

\* a request is suspended on an external call
Suspended == \E i \in 1..Len(pending) : pending[i].pc \in {"generate", "analyze"}

Statuses == {200, 201, 204, 400, 404, 500}

\* C24: every request the router accepts eventually receives exactly one
\* response, with a status among 200, 201, 204, 400, 404, 500; no failure of
\* the store or of generation leaves a request without response, provided
\* each external call eventually returns or fails; and while a POST
\* /generate-character-response is pending on an external call, other
\* requests are still taken and answered.
C24_EveryRequestAnswered ==
    /\ [][ /\ Accepted' \in {Accepted, Accepted + 1}
           /\ nreq' \in {nreq, nreq + 1}
           /\ nreq' = nreq + 1 => resp'.status \in Statuses
           /\ Len(pending') < Len(pending)
                 => nreq' = nreq + 1 /\ Len(pending') = Len(pending) - 1
         ]_vars
    /\ \A n \in 0..(MaxReq - 1) : (Accepted > n) ~> (nreq > n)
    /\ []((Suspended /\ Accepted < budget)
            => /\ ENABLED GET_worlds
               /\ ENABLED POST_worlds
               /\ ENABLED PATCH_characters_id
               /\ ENABLED DELETE_characters_id
               /\ ENABLED POST_chat_messages)

\* C24 witness: POST /worlds was taken and answered 201 while a POST
\* /generate-character-response was waiting for its external call
C24_Witness ==
    /\ Suspended
    /\ resp.op = "POST /api/worlds"
    /\ resp.status = 201
    /\ nreq = 1

\* C25: in every reachable store state each World, Character and Scene
\* stored under map key k has id k and the createdAt it was created with: no
\* PATCH /worlds/:id, /characters/:id or /scenes/:id, whatever its body
\* (bodies carrying id or createdAt included), changes either.
C25_PatchKeepsIdAndCreatedAt ==
    [][ \A m \in {"worlds", "characters", "scenes"} :
          /\ \A k \in DOMAIN storage[m] : storage[m][k].id = k
          /\ \A k \in DOMAIN storage'[m] :
                /\ storage'[m][k].id = k
                /\ k \in DOMAIN storage[m]
                      => storage'[m][k].createdAt = storage[m][k].createdAt ]_vars

UpdateOps ==
    { [op |-> "updateWorld", map |-> "worlds"],
      [op |-> "updateCharacter", map |-> "characters"],
      [op |-> "updateScene", map |-> "scenes"] }

\* C26: update(id, patch) on a stored World, Character or Scene changes only
\* the fields named in patch, of that one entity: every field the patch does
\* not name keeps its value, every other entity of the type and every entity
\* of every other type is unchanged, and no id counter changes.
C26_UpdateFrame ==
    [][ \A u \in UpdateOps :
          (Answered(u.op) /\ resp'.id \in DOMAIN storage[u.map])
          => LET id == resp'.id
                 patch == resp'.reqBody
                 old == storage[u.map][id]
                 new == storage'[u.map][id]
             IN /\ DOMAIN storage'[u.map] = DOMAIN storage[u.map]
                /\ DOMAIN new = DOMAIN old \cup DOMAIN patch
                /\ \A f \in DOMAIN patch : new[f] = patch[f]
                /\ \A f \in DOMAIN old \ DOMAIN patch : new[f] = old[f]
                /\ \A k \in DOMAIN storage[u.map] \ {id} :
                      storage'[u.map][k] = storage[u.map][k]
                /\ \A f \in DOMAIN storage \ {u.map} : storage'[f] = storage[f]
                /\ resp'.body = <<new>> ]_vars

\* C26 witness: updateScene(1, {title, worldId}) was applied to the seeded
\* scene, which has its new title and world and the content it had
C26_Witness ==
    /\ resp.op = "updateScene"
    /\ resp.id = 1
    /\ DOMAIN resp.reqBody = {"title", "worldId"}
    /\ storage.scenes[1].title = resp.reqBody.title
    /\ storage.scenes[1].title # SeededStorage.scenes[1].title
    /\ storage.scenes[1].content = SeededStorage.scenes[1].content

\* C27: POST /generate-character-response never stores a ChatMessage for a
\* character that is not stored at the moment of the write: when DELETE
\* /characters/:id of the character completes while the request is suspended
\* on an external call, the request stores no message and is not answered
\* 200.
C27_NoReplyForDeletedCharacter ==
    [][ /\ \A i \in 1..Len(pending') :
              (pending'[i].pc = "update" /\ pending'[i].newMessage \in NewMessages)
              => storage'.chatMessages[pending'[i].newMessage].characterId
                     \in DOMAIN storage.characters
        /\ (Answered(GenOp) /\ resp'.status = 200)
              => resp'.id \in DOMAIN storage.characters ]_vars

MoodFields == {"currentMood", "currentMoodIntensity", "currentMoodColor"}

\* C28: no lost update on the Character record across the suspension points
\* of POST /generate-character-response: the request's final character write
\* changes only currentMood, currentMoodIntensity and currentMoodColor of
\* the record as it is stored at that moment, so every field value written
\* by a PATCH /characters/:id or PATCH /characters/:id/memory that completed
\* while the request was pending is preserved.
C28_NoLostUpdate ==
    [][ \A i \in Persisting :
          pending' = RemoveAt(pending, i)
          => /\ DOMAIN storage'.characters = DOMAIN storage.characters
             /\ \A k \in DOMAIN storage.characters :
                   LET old == storage.characters[k]
                       new == storage'.characters[k]
                   IN /\ DOMAIN new \ MoodFields = DOMAIN old \ MoodFields
                      /\ \A f \in DOMAIN old \ MoodFields : new[f] = old[f]
             /\ \A f \in DOMAIN storage \ {"characters"} : storage'[f] = storage[f]
      ]_vars

\* C28 witness: PATCH /characters/1 was answered 200 while a generate request
\* for character 1 was pending; the request, which has stored its reply and
\* is about to write the mood, holds the character as it was before the
\* PATCH
C28_Witness ==
    /\ resp.op = "PATCH /api/characters/:id"
    /\ resp.status = 200
    /\ \E i \in 1..Len(pending) :
          /\ pending[i].pc = "update"
          /\ pending[i].character.id = resp.id
          /\ resp.id \in DOMAIN storage.characters
          /\ storage.characters[resp.id].name = "Renamed"
          /\ pending[i].character.name # "Renamed"

\* C29: every reply stored by POST /generate-character-response was
\* generated from a history holding every message of the character that
\* precedes the reply in the stored conversation (every message of the
\* character with a smaller id): no message of the character is stored
\* between the request's history read and its reply write, also when two
\* generate requests, or a generate request and a POST /chat-messages, for
\* the same character overlap.
C29_ReplyFromCompleteHistory ==
    [][ \A i \in 1..Len(pending') :
          (pending'[i].pc = "update" /\ pending'[i].newMessage \in NewMessages)
          => LET reply == storage'.chatMessages[pending'[i].newMessage]
                 history == HistoryOf(pending'[i])
             IN { k \in DOMAIN storage'.chatMessages :
                    /\ storage'.chatMessages[k].characterId = reply.characterId
                    /\ k < reply.id }
                = { history[j] : j \in 1..Len(history) } ]_vars

\* the messages of character c stored since the server was constructed
SentMessages(s, c, isUserMessage) ==
    { k \in DOMAIN s.chatMessages \ DOMAIN SeededStorage.chatMessages :
        /\ s.chatMessages[k].characterId = c
        /\ s.chatMessages[k].isUserMessage = isUserMessage }

\* every request of the page's send has been answered and the answer received
SendOver(p, q, n) == p.pc = "done" /\ p.chat = {} /\ p.seen = n /\ q = << >>

\* C30: when the chat page sends a user message, the POST /chat-messages
\* that stores it takes effect on the server before the POST
\* /generate-character-response of the same send reads the character's
\* history, so the history the reply is generated from ends with that user
\* message; and one send results in exactly one new user message and
\* exactly one new character message in the stored conversation.
C30_SendStoresUserMessageFirst ==
    [][ /\ Len(pending') > Len(pending)
           => LET messages == pending'[Len(pending')].messages
              IN /\ messages # << >>
                 /\ messages[Len(messages)].id
                       \in SentMessages(storage, page.characterId, TRUE)
        /\ SendOver(page', pending', nreq')
           => /\ Cardinality(SentMessages(storage', page.characterId, TRUE)) = 1
              /\ Cardinality(SentMessages(storage', page.characterId, FALSE)) = 1
      ]_vars

====
